---------------------------- MODULE Spec2Model ----------------------------
(***************************************************************************)
(* Model of the waveform OBS plugin's audio pipeline (class WAVSource and  *)
(* its portable backend WAVSourceGeneric): the capture callback, the       *)
(* per-frame tick in spectrum mode, reconfiguration (update), teardown,    *)
(* and the recursive timed mutex m_mtx that serialises them.               *)
(*                                                                         *)
(* The WAVSource object is one record, `w`, whose fields carry the names   *)
(* of the members in src/src/source.hpp.  Every method is an operator      *)
(* from object state to object state, so that a handler that calls         *)
(* another (update -> release_audio_capture -> free_bufs -> ...) is the    *)
(* composition of the operators.                                           *)
(*                                                                         *)
(* Scaling.  Time stamps are counted in quanta of TimeUnitNs nanoseconds,  *)
(* floats are fixed point with FX steps per unit, and the transform size   *)
(* is FftLen samples (the program's minimum is 128).  Configurations       *)
(* explored: spectrum display (curve), volume normalisation off, roll-off  *)
(* off.  The forward transform (fftw, with the window function and the     *)
(* slope weights folded in) is an external collaborator: its output        *)
(* magnitudes are chosen nondeterministically, except that an all-zero     *)
(* input gives an all-zero output.                                         *)
(***************************************************************************)
EXTENDS Integers, Sequences, FiniteSets, TLC

VARIABLES
    w,          \* the WAVSource object (and the host's callback list, obs_cb)
    clock,      \* os_gettime_ns(), in time quanta
    src_alive,  \* the named audio source exists in OBS
    showing,    \* obs_source_showing(m_source)
    lock,       \* m_mtx: [owner, count]
    pc,         \* position of each thread: [audio, video, ui]
    ev,         \* history: what the last step did (read by the properties only)
    hist        \* history: counters over the ticks so far (properties only)

vars == <<w, clock, src_alive, showing, lock, pc, ev, hist>>

---------------------------------------------------------------------------
(* Scales and bounds *)

TimeUnitNs == 500000000
FX == 4
U64 == 1073741824
SamplesPerSec == 1
sizeof_float == 4

MaxAdvance == 2
FftLen == 2
MaxMag == 4
MaxFrames == 2
SilenceTicks == 4
MaxHeld == 2
RmsLen == 2
AUDIO_OUTPUT_FRAMES == 2

NsPerSec == 1000000000 \div TimeUnitNs

DB_MIN == -3034
P_CUTOFF_LOW_DEFAULT == 30
P_CUTOFF_HIGH_DEFAULT == 17500
P_FLOOR_DEFAULT == -65
P_CEILING_DEFAULT == 0
RETRY_DELAY == 2
CAPTURE_TIMEOUT == (1000000 * 500) \div TimeUnitNs
MAX_TS_DELTA == (1000000000 \div TimeUnitNs) * 16

StartClock == MAX_TS_DELTA + 1
MaxClock == StartClock + MaxAdvance

---------------------------------------------------------------------------
(* Arithmetic helpers *)

Min(a, b) == IF a < b THEN a ELSE b
Max(a, b) == IF a > b THEN a ELSE b

\* unsigned 64-bit subtraction (wraps)
U64Sub(a, b) == (a - b) % U64

\* util_mul_div64 as used by ns_to_audio_frames / audio_frames_to_ns
ns_to_audio_frames(sr, ns) == (ns * sr) \div NsPerSec
audio_frames_to_ns(sr, frames) == (frames * NsPerSec) \div sr

RECURSIVE ILog2(_)
ILog2(x) == IF x <= 1 THEN 0 ELSE 1 + ILog2(x \div 2)

\* WAVSource::dbfs: 20*log10(mag), 6 dB per octave in fixed point
dbfs(mag) ==
    IF mag > 0 THEN 6 * FX * (ILog2(mag) - ILog2(FX)) ELSE DB_MIN

\* std::sqrt on non-negative values, rounded down
ISqrt(n) == CHOOSE r \in 0..n : r * r <= n /\ (r + 1) * (r + 1) > n

\* WAVSource::get_gravity, as a fraction g / 2 (TVEXPONENTIAL is never
\* selected by get_settings)
get_gravity(s) ==
    IF s.m_tsmoothing = "NONE" \/ s.m_gravity <= 0 THEN 0 ELSE s.m_gravity

---------------------------------------------------------------------------
(* circlebuf *)

Zeros(n) == [i \in 1..n |-> 0]
Fill(n, v) == [i \in 1..n |-> v]
BufSize(buf) == Len(buf) * sizeof_float
\* circlebuf_pop_front(buf, nullptr, size)
pop_front(buf, size) == SubSeq(buf, (size \div sizeof_float) + 1, Len(buf))
\* circlebuf_peek_front(buf, out, size)
peek_front(buf, size) == SubSeq(buf, 1, size \div sizeof_float)
\* circlebuf_push_back / circlebuf_push_back_zero
push_back(buf, data) == buf \o data

---------------------------------------------------------------------------
(* WAVSource *)

Bins(s) == 0 .. (s.m_fft_size \div 2) - 1
FillBins(n, v) == [i \in 0 .. n - 1 |-> v]
null == << >>

\* the object as the constructor leaves it (member initialisers)
Constructed ==
    [ isa |-> "WAVSourceGeneric",
      m_audio_source_name |-> "none",
      m_audio_source |-> "null",
      m_output_bus_captured |-> FALSE,
      obs_cb |-> FALSE,
      speakers |-> 0,
      m_capture_channels |-> 0,
      m_output_channels |-> 0,
      m_channel_mode |-> "MONO",
      m_channel_base |-> 0,
      m_stereo |-> FALSE,
      m_ignore_mute |-> FALSE,
      m_fft_size |-> 0,
      m_fft_plan |-> FALSE,
      m_floor |-> -120,
      m_ceiling |-> 0,
      m_cutoff_low |-> 0,
      m_cutoff_high |-> 24000,
      m_tsmoothing |-> "EXPONENTIAL",
      m_gravity |-> 0,
      m_fast_peaks |-> FALSE,
      m_capturebufs |-> [c \in 0..1 |-> << >>],
      m_decibels |-> [c \in 0..1 |-> null],
      m_tsmooth_buf |-> [c \in 0..1 |-> null],
      m_last_silent |-> FALSE,
      m_normalize_volume |-> FALSE,
      m_volume_target |-> -3,
      m_max_gain |-> 30,
      m_input_rms |-> 0,
      m_input_rms_size |-> 0,
      m_input_rms_pos |-> 0,
      m_input_rms_buf |-> null,
      m_rms_sync_buf |-> << >>,
      m_show |-> TRUE,
      m_next_retry |-> 0,
      m_capture_ts |-> 0,
      m_audio_ts |-> 0,
      m_tick_ts |-> 0 ]

get_audio_sync(s, ts) ==
    LET delta == Min(Max(s.m_audio_ts, ts) - Min(s.m_audio_ts, ts), MAX_TS_DELTA)
    IN IF s.m_audio_ts < ts THEN -delta ELSE delta

\* positive audio/video drift in samples
DtSamples(s, ts) ==
    LET dtaudio == get_audio_sync(s, ts)
    IN IF dtaudio > 0 THEN ns_to_audio_frames(SamplesPerSec, dtaudio) ELSE 0

\* a release that leaves the member set while the callback is removed
release_keep(s) == s

\* release_audio_capture, first part: the weak reference is dropped and the
\* member cleared before the host is asked to remove the callback
release_clear(s) == [s EXCEPT !.m_audio_source = "null"]

\* release_audio_capture, second part: the callback is removed when the weak
\* reference still gave the source (had_src); the output bus is disconnected
release_remove(s, had_src) ==
    [s EXCEPT
        !.obs_cb = IF had_src THEN FALSE ELSE @,
        !.m_output_bus_captured = FALSE]

\* release_audio_capture, last part: reset circular buffers and time stamps
release_reset(s) ==
    [s EXCEPT
        !.m_capturebufs = [c \in 0..1 |-> << >>],
        !.m_rms_sync_buf = << >>,
        !.m_capture_ts = 0,
        !.m_audio_ts = 0]

\* does release_audio_capture call obs_source_remove_audio_capture_callback
HadSrc(s, alive) == s.m_audio_source # "null" /\ alive

release_audio_capture(s, alive) ==
    release_reset(release_remove(release_clear(s), HadSrc(s, alive)))

recapture_audio(s, alive) ==
    LET r == release_audio_capture(s, alive)
    IN CASE r.m_audio_source_name = "none" -> r
         [] r.m_audio_source_name = "bus" ->
                IF r.speakers # 0
                THEN [r EXCEPT !.m_output_bus_captured = TRUE]
                ELSE r
         [] OTHER ->
                IF alive
                THEN [r EXCEPT !.obs_cb = TRUE, !.m_audio_source = "ref"]
                ELSE r

\* a check that retries on every tick: the delay is never re-armed
check_audio_capture_eager(s, seconds, alive) ==
    IF s.m_output_bus_captured THEN [s |-> s, ok |-> TRUE]
    ELSE
      LET s1 == IF s.m_audio_source # "null" /\ ~alive
                THEN release_audio_capture(s, alive) ELSE s
      IN IF s1.m_audio_source = "null"
         THEN LET s3 == recapture_audio(s1, alive)
              IN [s |-> s3, ok |-> s3.m_audio_source # "null"]
         ELSE [s |-> s1, ok |-> TRUE]

\* the result carries the return value in field ok
check_audio_capture(s, seconds, alive) ==
    IF s.m_output_bus_captured THEN [s |-> s, ok |-> TRUE]
    ELSE
      LET s1 == IF s.m_audio_source # "null" /\ ~alive
                THEN release_audio_capture(s, alive) ELSE s
      IN IF s1.m_audio_source = "null"
         THEN LET s2 == [s1 EXCEPT !.m_next_retry = @ - seconds]
              IN IF s2.m_next_retry <= 0
                 THEN LET s3 == recapture_audio(
                                  [s2 EXCEPT !.m_next_retry = RETRY_DELAY], alive)
                      IN [s |-> s3,
                          ok |-> (s3.m_audio_source # "null")
                                   \/ s3.m_output_bus_captured]
                 ELSE [s |-> s2, ok |-> FALSE]
         ELSE [s |-> s1, ok |-> TRUE]

free_bufs(s) ==
    [s EXCEPT
        !.m_decibels = [c \in 0..1 |-> null],
        !.m_tsmooth_buf = [c \in 0..1 |-> null],
        !.m_input_rms_buf = null,
        !.m_fft_plan = FALSE,
        !.m_fft_size = 0]


MAX_AUDIO_CHANNELS == 8

\* WAVSource::get_settings: the settings the pipeline reads.  The transform
\* size asked for is FftLen; an empty dB range is replaced by the defaults.
\* get_settings accepts an empty cutoff range (high = low)
cutoff_range_or_empty(low, high) ==
    IF (high - low) < 0 THEN [low |-> 120, high |-> 17500]
    ELSE [low |-> low, high |-> high]

\* get_settings: the frequency range kept from the settings
cutoff_range(low, high) ==
    IF (high - low) < 1 THEN [low |-> 120, high |-> 17500]
    ELSE [low |-> low, high |-> high]

\* get_settings: the dB range kept from the settings
db_range(floor, ceiling) ==
    IF (ceiling - floor) < 1 THEN [floor |-> -120, ceiling |-> 0]
    ELSE [floor |-> floor, ceiling |-> ceiling]

\* the width of int, scaled, and the cast (int)obs_data_get_int(...)
INT_BITS == 8
to_int(v) == ((v + 2^(INT_BITS - 1)) % 2^INT_BITS) - 2^(INT_BITS - 1)

get_settings(s, cfg) ==
    LET cut == cutoff_range(cfg.cutoff_low, cfg.cutoff_high)
        db == db_range(cfg.floor, cfg.ceiling)
    IN [s EXCEPT
        !.m_audio_source_name = cfg.audio_source,
        !.m_stereo = (cfg.channel_mode = "STEREO"),
        !.m_channel_base = to_int(cfg.channel),
        !.m_channel_mode = cfg.channel_mode,
        !.m_fft_size = cfg.fft_size,
        !.m_tsmoothing = cfg.tsmoothing,
        !.m_gravity = cfg.gravity,
        !.m_fast_peaks = cfg.fast_peaks,
        !.m_cutoff_low = cut.low,
        !.m_cutoff_high = cut.high,
        !.m_floor = db.floor,
        !.m_ceiling = db.ceiling,
        !.m_ignore_mute = cfg.ignore_mute,
        !.m_normalize_volume = cfg.normalize_volume,
        !.m_volume_target = cfg.volume_target,
        !.m_max_gain = cfg.max_gain]

\* the channel layout part of update()
\* a single-channel mode that takes the configured channel as it is
update_channels_unchecked(s, max_channels) ==
    LET cc == Min(max_channels, 2)
    IN IF s.m_channel_mode = "SINGLE"
       THEN [s EXCEPT !.speakers = max_channels,
                      !.m_capture_channels = Min(cc, 1)]
       ELSE [s EXCEPT !.speakers = max_channels,
                      !.m_capture_channels = cc, !.m_channel_base = 0]

update_channels(s, max_channels) ==
    LET cc == Min(max_channels, 2)
    IN IF s.m_channel_mode = "SINGLE"
       THEN IF s.m_channel_base < 0 \/ s.m_channel_base >= max_channels
               \/ s.m_channel_base >= MAX_AUDIO_CHANNELS
            THEN [s EXCEPT !.speakers = max_channels,
                           !.m_capture_channels = 0, !.m_channel_base = 0]
            ELSE [s EXCEPT !.speakers = max_channels,
                           !.m_capture_channels = Min(cc, 1)]
       ELSE [s EXCEPT !.speakers = max_channels,
                      !.m_capture_channels = cc, !.m_channel_base = 0]

\* the buffer allocation part of update() (spectrum mode)
alloc_bufs(s, plan_ok) ==
    LET oc == IF s.m_capture_channels > 1 \/ s.m_stereo THEN 2 ELSE 1
        count == s.m_fft_size \div 2
    IN [s EXCEPT
        !.m_output_channels = oc,
        !.m_decibels = [c \in 0..1 |->
                          IF c < oc THEN FillBins(count, DB_MIN) ELSE null],
        !.m_tsmooth_buf = [c \in 0..1 |->
                          IF c < oc /\ s.m_tsmoothing # "NONE"
                          THEN FillBins(count, 0) ELSE null],
        !.m_fft_plan = plan_ok]

\* update() from get_settings to the end (the rebuild)
\* the RMS window part of update(): RmsLen samples stand for
\* samples_per_sec & -16
alloc_rms(s) ==
    IF s.m_normalize_volume
    THEN [s EXCEPT !.m_input_rms = 0,
                   !.m_input_rms_size = RmsLen,
                   !.m_input_rms_pos = 0,
                   !.m_input_rms_buf = FillBins(RmsLen, 0)]
    ELSE s

rebuild(s, cfg, envr, now) ==
    LET s1 == alloc_rms(get_settings(s, cfg))
        s2 == update_channels(s1, envr.speakers)
        s3 == alloc_bufs(s2, envr.plan_ok)
        s4 == [s3 EXCEPT !.m_last_silent = FALSE,
                         !.m_show = envr.showing,
                         !.m_next_retry = 0]
        s5 == recapture_audio(s4, envr.alive)
    IN [s5 EXCEPT !.m_capture_ts = now]

\* WAVSource::update
update(s, cfg, envr, now) ==
    rebuild(free_bufs(release_audio_capture(s, envr.alive)), cfg, envr, now)

\* the guard of capture_audio, after the lock is taken
capture_guard(s) ==
    ~((s.m_audio_source = "null" /\ ~s.m_output_bus_captured)
        \/ s.m_capture_channels = 0)

\* a block that is pushed as delivered whether muted or not
\* the value of frame k (from 0) of input channel i: "step" data is loud
\* in its first frame only, the other kinds are the same in every frame
SampleAt(audio, i, k) ==
    CASE audio.data[i] = "step" -> IF k = 0 THEN 2 ELSE 1
      [] audio.data[i] = "nz" -> 1
      [] audio.data[i] = "hi" -> 2
      [] OTHER -> 0

Block_as_delivered(s, audio, muted, i) ==
    IF audio.data[i] = "null" THEN Zeros(audio.frames)
    ELSE Fill(audio.frames, IF audio.data[i] = "zero" THEN 0 ELSE 1)

\* the samples capture_audio pushes for input channel i
Block(s, audio, muted, i) ==
    IF (muted /\ ~s.m_ignore_mute) \/ audio.data[i] = "null"
    THEN Zeros(audio.frames)
    ELSE [k \in 1 .. audio.frames |-> SampleAt(audio, i, k - 1)]

\* a push that never trims
push_no_trim(buf, data, max_size) == push_back(buf, data)

\* a trim that keeps half of what the bound allows
push_and_trim_half(buf, data, max_size) ==
    LET pushed == push_back(buf, data)
        total == BufSize(pushed)
        half == (max_size \div (2 * sizeof_float)) * sizeof_float
    IN IF total > max_size THEN pop_front(pushed, total - half) ELSE pushed

\* one channel's push and trim
push_and_trim(buf, data, max_size) ==
    LET pushed == push_back(buf, data)
        total == BufSize(pushed)
    IN IF total > max_size THEN pop_front(pushed, total - max_size) ELSE pushed

\* an end-of-delivery timestamp that forgets the length of the block
start_of_audio(audio, now) ==
    LET delta == Max(audio.timestamp, now) - Min(audio.timestamp, now)
    IN IF delta > MAX_TS_DELTA THEN now ELSE audio.timestamp

\* an end-of-delivery timestamp that trusts every host timestamp
end_of_audio_unchecked(audio, now) ==
    audio.timestamp + audio_frames_to_ns(SamplesPerSec, audio.frames)

\* the largest sample over the captured channels at frame k (from 0)
LargestAt(s, audio, k) ==
    IF s.m_capture_channels > 1
    THEN Max(SampleAt(audio, s.m_channel_base, k),
             SampleAt(audio, s.m_channel_base + 1, k))
    ELSE SampleAt(audio, s.m_channel_base, k)

\* what capture_audio adds to m_rms_sync_buf: the delivery is taken in
\* chunks of AUDIO_OUTPUT_FRAMES, and within each chunk value i is the
\* square of the largest sample at frame i of the data pointers
RmsBlock(s, audio) ==
    [k \in 1 .. audio.frames |->
        LET i == (k - 1) % AUDIO_OUTPUT_FRAMES
            val == LargestAt(s, audio, i)
        IN val * val]

\* the end-of-delivery timestamp capture_audio stores in m_audio_ts
end_of_audio(audio, now) ==
    LET audio_len == audio_frames_to_ns(SamplesPerSec, audio.frames)
        delta == Max(audio.timestamp, now) - Min(audio.timestamp, now)
    IN IF delta > MAX_TS_DELTA THEN now ELSE audio.timestamp + audio_len

\* WAVSource::capture_audio with the lock held (audio # nullptr)
capture_audio(s, audio, muted, now) ==
    IF ~capture_guard(s) THEN s
    ELSE
      LET s1 == [s EXCEPT
                   !.m_capture_ts = now,
                   !.m_audio_ts = end_of_audio(audio, now)]
          bufsz == s.m_fft_size * sizeof_float
          dtsamples == DtSamples(s1, s1.m_capture_ts)
          max_size == (dtsamples * sizeof_float) + bufsz
      IN [s1 EXCEPT
            !.m_rms_sync_buf =
                IF s.m_normalize_volume
                THEN push_and_trim(@, RmsBlock(s, audio),
                        (dtsamples * sizeof_float)
                            + (s.m_input_rms_size * sizeof_float))
                ELSE @,
            !.m_capturebufs = [j \in 0..1 |->
                IF j < s.m_capture_channels
                THEN push_and_trim(s.m_capturebufs[j],
                                   Block(s, audio, muted, s.m_channel_base + j),
                                   max_size)
                ELSE s.m_capturebufs[j]]]

---------------------------------------------------------------------------
(* WAVSourceGeneric::tick_spectrum *)

\* bytes a channel must hold for this tick: positive drift plus one window
TickDtSize(s) ==
    DtSamples(s, s.m_tick_ts) * sizeof_float + s.m_fft_size * sizeof_float

\* a copy that takes the newest samples of the buffer
NewestWindow(s, channel) ==
    LET buf == s.m_capturebufs[channel]
    IN SubSeq(buf, Len(buf) - s.m_fft_size + 1, Len(buf))

\* the window tick_spectrum copies into m_fft_input for a channel
TickWindow(s, channel) ==
    LET buf == s.m_capturebufs[channel]
    IN peek_front(pop_front(buf, BufSize(buf) - TickDtSize(s)),
                  s.m_fft_size * sizeof_float)

IsZero(window) == \A i \in 1..Len(window) : window[i] = 0

\* a smoothing step that never lets go of the old value
Blend_hold(gnum, oldval, mag) == Max(oldval, mag)

\* g * oldval + (1 - g) * mag with g = gnum / 2
Blend(gnum, oldval, mag) == (gnum * oldval + (2 - gnum) * mag) \div 2

\* the magnitude loop for one channel: smoothing, then the store
\* (out is the transform's magnitude output for this window)
magnitudes(s, channel, out) ==
    LET g == get_gravity(s)
        smoothed == [i \in Bins(s) |->
            IF s.m_tsmoothing # "NONE"
            THEN LET old0 == s.m_tsmooth_buf[channel][i]
                     oldval == IF s.m_fast_peaks THEN Max(out[i], old0) ELSE old0
                 IN Blend(g, oldval, out[i])
            ELSE out[i]]
    IN [s EXCEPT
          !.m_tsmooth_buf[channel] =
              IF s.m_tsmoothing # "NONE" THEN smoothed ELSE @,
          !.m_decibels[channel] = smoothed]

\* a hysteresis test that does not look at the frame
outsilent_always(s, channel) == TRUE

\* the hysteresis test: no bin of the displayed channel above floor - 10
outsilent(s, channel) ==
    LET ch == IF s.m_stereo THEN channel ELSE 0
    IN \A i \in Bins(s) : ~(s.m_decibels[ch][i] > (s.m_floor - 10) * FX)

\* one iteration of the channel loop; t = [s, silent_channels]
tick_channel(t, channel, fft) ==
    LET s == t.s
        buf == s.m_capturebufs[channel]
        dtsize == TickDtSize(s)
    IN IF ~(BufSize(buf) >= dtsize) THEN t
       ELSE
         LET window == TickWindow(s, channel)
             silent == IsZero(window)
             s1 == [s EXCEPT
                      !.m_capturebufs[channel] =
                          pop_front(buf, BufSize(buf) - dtsize),
                      !.m_last_silent = IF silent THEN @ ELSE FALSE]
             out == IF silent THEN [i \in Bins(s) |-> 0] ELSE fft[channel]
         IN IF silent /\ s1.m_last_silent THEN [t EXCEPT !.s = s1]
            ELSE IF silent /\ outsilent(s1, channel)
            THEN [s |-> [s1 EXCEPT !.m_last_silent =
                            (t.silent_channels + 1 >= s.m_capture_channels)],
                  silent_channels |-> t.silent_channels + 1]
            ELSE IF ~s.m_fft_plan THEN [t EXCEPT !.s = s1]
            ELSE [t EXCEPT !.s = magnitudes(s1, channel, out)]

\* the dB conversion after the channel loop
to_decibels(s) ==
    LET d == IF s.m_output_channels > s.m_capture_channels
             THEN [s.m_decibels EXCEPT ![1] = s.m_decibels[0]]
             ELSE s.m_decibels
    IN IF s.m_stereo
       THEN [s EXCEPT !.m_decibels =
                [c \in 0..1 |-> [i \in Bins(s) |-> dbfs(d[c][i])]]]
       ELSE IF s.m_capture_channels > 1
       THEN [s EXCEPT !.m_decibels =
                [d EXCEPT ![0] = [i \in Bins(s) |->
                                    dbfs((d[0][i] + d[1][i]) \div 2)]]]
       ELSE [s EXCEPT !.m_decibels =
                [d EXCEPT ![0] = [i \in Bins(s) |-> dbfs(d[0][i])]]]

\* the hidden / capture-timeout branch
\* the hidden / timed-out branch without its early return
tick_quiet_always(s) ==
    [s EXCEPT
        !.m_tsmooth_buf = [c \in 0..1 |->
            IF c < s.m_capture_channels /\ s.m_tsmooth_buf[c] # null
            THEN [i \in Bins(s) |-> 0] ELSE s.m_tsmooth_buf[c]],
        !.m_decibels = [c \in 0..1 |->
            IF c < (IF s.m_stereo THEN 2 ELSE 1)
            THEN [i \in Bins(s) |-> DB_MIN] ELSE s.m_decibels[c]],
        !.m_last_silent = TRUE]

tick_quiet(s) ==
    IF s.m_last_silent THEN s
    ELSE [s EXCEPT
            !.m_tsmooth_buf = [c \in 0..1 |->
                IF c < s.m_capture_channels /\ s.m_tsmooth_buf[c] # null
                THEN [i \in Bins(s) |-> 0] ELSE s.m_tsmooth_buf[c]],
            !.m_decibels = [c \in 0..1 |->
                IF c < (IF s.m_stereo THEN 2 ELSE 1)
                THEN [i \in Bins(s) |-> DB_MIN] ELSE s.m_decibels[c]],
            !.m_last_silent = TRUE]

TickQuiet(s) ==
    ~s.m_show \/ U64Sub(s.m_tick_ts, s.m_capture_ts) > CAPTURE_TIMEOUT

\* the gain a tick adds when normalising, with the target and ceiling given
volume_compensation(s, target, max_gain) ==
    Min((target * FX) - dbfs(s.m_input_rms), max_gain * FX)

\* the gain loop: bins first.. of the displayed channels
add_gain(s, first, gain) ==
    [s EXCEPT !.m_decibels =
        [c \in 0..1 |->
            IF c < (IF s.m_stereo THEN 2 ELSE 1)
            THEN [i \in Bins(s) |->
                    IF i >= first THEN s.m_decibels[c][i] + gain
                    ELSE s.m_decibels[c][i]]
            ELSE s.m_decibels[c]]]

\* volume normalisation of WAVSourceGeneric::tick_spectrum
normalize_generic(s) ==
    IF s.m_normalize_volume
    THEN add_gain(s, 1, volume_compensation(s, s.m_volume_target, s.m_max_gain))
    ELSE s

\* volume normalisation of WAVSourceAVX::tick_spectrum
normalize_avx(s) ==
    IF s.m_normalize_volume /\ ~s.m_last_silent
    THEN add_gain(s, 0, volume_compensation(s, -3, 30))
    ELSE s

WAVSourceGeneric_tick_spectrum(s, fft) ==
    IF TickQuiet(s) THEN tick_quiet(s)
    ELSE
      LET t0 == [s |-> s, silent_channels |-> 0]
          t1 == IF s.m_capture_channels > 0 THEN tick_channel(t0, 0, fft) ELSE t0
          t2 == IF s.m_capture_channels > 1 THEN tick_channel(t1, 1, fft) ELSE t1
      IN IF t2.s.m_last_silent THEN t2.s
         ELSE normalize_generic(to_decibels(t2.s))

(* WAVSourceAVX::tick_spectrum and WAVSourceAVX2::tick_spectrum *)

\* bytes the vector variants drop per tick: the tick's own duration in samples
AvxDtSize(seconds) == (seconds * SamplesPerSec) * sizeof_float

\* what the vector variants leave in a channel's buffer
avx_pop(s, channel, seconds) ==
    LET buf == s.m_capturebufs[channel]
        bufsz == s.m_fft_size * sizeof_float
    IN pop_front(buf, Min(AvxDtSize(seconds), BufSize(buf) - bufsz))

\* one iteration of the channel loop of the vector variants
avx_tick_channel(t, channel, fft, seconds) ==
    LET s == t.s
        buf == s.m_capturebufs[channel]
        bufsz == s.m_fft_size * sizeof_float
    IN IF ~(BufSize(buf) >= bufsz) THEN t
       ELSE
         LET kept == avx_pop(s, channel, seconds)
             window == peek_front(kept, bufsz)
             silent == IsZero(window)
             s1 == [s EXCEPT
                      !.m_capturebufs[channel] = kept,
                      !.m_last_silent = IF silent THEN @ ELSE FALSE]
             out == IF silent THEN [i \in Bins(s) |-> 0] ELSE fft[channel]
         IN IF silent /\ s1.m_last_silent THEN [t EXCEPT !.s = s1]
            ELSE IF silent /\ outsilent(s1, channel)
            THEN [s |-> [s1 EXCEPT !.m_last_silent =
                            (t.silent_channels + 1 >= s.m_capture_channels)],
                  silent_channels |-> t.silent_channels + 1]
            ELSE IF ~s.m_fft_plan THEN [t EXCEPT !.s = s1]
            ELSE [t EXCEPT !.s = magnitudes(s1, channel, out)]

\* the channel loop and the dB conversion of the vector variants
avx_channels(s, seconds, fft) ==
    LET t0 == [s |-> s, silent_channels |-> 0]
        t1 == IF s.m_capture_channels > 0
              THEN avx_tick_channel(t0, 0, fft, seconds) ELSE t0
        t2 == IF s.m_capture_channels > 1
              THEN avx_tick_channel(t1, 1, fft, seconds) ELSE t1
    IN IF t2.s.m_last_silent THEN t2.s ELSE to_decibels(t2.s)

\* the clock is read again; within one step it reads what tick() read
WAVSourceAVX_tick_spectrum(s, seconds, fft, alive) ==
    LET c == check_audio_capture(s, seconds, alive)
    IN IF ~c.ok THEN c.s
       ELSE IF c.s.m_capture_channels = 0 THEN c.s
       ELSE IF TickQuiet(c.s) THEN tick_quiet(c.s)
       ELSE LET r == avx_channels(c.s, seconds, fft)
            IN IF r.m_last_silent THEN r ELSE normalize_avx(r)

WAVSourceAVX2_tick_spectrum(s, seconds, fft, alive) ==
    LET c == check_audio_capture(s, seconds, alive)
    IN IF ~c.ok THEN c.s
       ELSE IF c.s.m_capture_channels = 0 THEN c.s
       ELSE IF ~c.s.m_show THEN tick_quiet(c.s)
       ELSE avx_channels(c.s, seconds, fft)

\* WAVSource::sync_rms_buffer writes the drained values round the ring
RECURSIVE RingWrite(_, _, _, _)
RingWrite(ring, pos, size, data) ==
    IF data = << >> THEN [buf |-> ring, pos |-> pos]
    ELSE RingWrite([ring EXCEPT ![pos] = Head(data)],
                   (pos + 1) % size, size, Tail(data))

\* a pop that takes the whole ring length wherever the write position is
rms_max_unwrapped(s) == s.m_input_rms_size * sizeof_float

\* bytes from the write position to the end of the ring
rms_max(s) == (s.m_input_rms_size - s.m_input_rms_pos) * sizeof_float

\* circlebuf_pop_front(&m_rms_sync_buf, &m_input_rms_buf[pos], size): the
\* values land at pos, pos + 1, ... wherever that is
pop_into_ring(s, size) ==
    LET n == size \div sizeof_float
        at == s.m_input_rms_pos .. (s.m_input_rms_pos + n - 1)
    IN [s EXCEPT
          !.m_input_rms_buf =
              [i \in (DOMAIN s.m_input_rms_buf) \cup at |->
                  IF i \in at THEN s.m_rms_sync_buf[i - s.m_input_rms_pos + 1]
                  ELSE s.m_input_rms_buf[i]],
          !.m_rms_sync_buf = pop_front(@, size)]

\* one iteration of the drain loop
rms_drain_step(s, dtsize) ==
    LET consume == BufSize(s.m_rms_sync_buf) - dtsize
        max == rms_max(s)
    IN IF consume >= max
       THEN [pop_into_ring(s, max) EXCEPT !.m_input_rms_pos = 0]
       ELSE [pop_into_ring(s, consume) EXCEPT
                !.m_input_rms_pos = @ + (consume \div sizeof_float)]

\* the drain loop, given up after fuel iterations
RECURSIVE rms_drain(_, _, _, _)
rms_drain(s, dtsize, steps, fuel) ==
    IF ~(BufSize(s.m_rms_sync_buf) > dtsize)
    THEN [s |-> s, steps |-> steps, done |-> TRUE]
    ELSE IF fuel = 0 THEN [s |-> s, steps |-> steps, done |-> FALSE]
    ELSE rms_drain(rms_drain_step(s, dtsize), dtsize, steps + 1, fuel - 1)

\* the drift sync_rms_buffer keeps queued, in bytes
RmsDtSize(s) == DtSamples(s, s.m_tick_ts) * sizeof_float

\* more iterations than the drain loop can need: each takes a value
DrainFuel(s) == Len(s.m_rms_sync_buf) + 1

\* WAVSource::sync_rms_buffer: move everything older than the drift into
\* the ring, keep the newest dtsamples values queued
sync_rms_buffer(s) ==
    LET dtsize == RmsDtSize(s)
    IN IF BufSize(s.m_rms_sync_buf) <= dtsize THEN [ok |-> FALSE, s |-> s]
       ELSE [ok |-> TRUE, s |-> rms_drain(s, dtsize, 0, DrainFuel(s)).s]

\* WAVSourceGeneric::update_input_rms
update_input_rms(s) ==
    LET c == sync_rms_buffer(s)
    IN IF ~c.ok THEN s
       ELSE
         LET RECURSIVE Sum(_)
             Sum(i) == IF i < 0 THEN 0 ELSE c.s.m_input_rms_buf[i] + Sum(i - 1)
             sum == Sum(c.s.m_input_rms_size - 1)
         IN [c.s EXCEPT !.m_input_rms =
                ISqrt((FX * FX * sum) \div c.s.m_input_rms_size)]

\* the virtual call: the class create() chose
tick_spectrum(s, seconds, fft, alive) ==
    CASE s.isa = "WAVSourceAVX2" -> WAVSourceAVX2_tick_spectrum(s, seconds, fft, alive)
      [] s.isa = "WAVSourceAVX" -> WAVSourceAVX_tick_spectrum(s, seconds, fft, alive)
      [] OTHER -> WAVSourceGeneric_tick_spectrum(s, fft)

\* a tick that keeps the timestamp of the tick before it
tick_unstamped(s, seconds, fft, alive, now) ==
    LET s1 == IF s.m_normalize_volume THEN update_input_rms(s) ELSE s
        c == check_audio_capture(s1, seconds, alive)
    IN IF ~c.ok THEN c.s
       ELSE IF c.s.m_capture_channels = 0 THEN c.s
       ELSE tick_spectrum(c.s, seconds, fft, alive)

\* WAVSource::tick with the lock held
tick(s, seconds, fft, alive, now) ==
    LET s0 == [s EXCEPT !.m_tick_ts = now]
        s1 == IF s0.m_normalize_volume THEN update_input_rms(s0) ELSE s0
        c == check_audio_capture(s1, seconds, alive)
    IN IF ~c.ok THEN c.s
       ELSE IF c.s.m_capture_channels = 0 THEN c.s
       ELSE tick_spectrum(c.s, seconds, fft, alive)

---------------------------------------------------------------------------
(* m_mtx (std::recursive_timed_mutex) and the locked entry of the callback *)

Free == [owner |-> "none", count |-> 0]

\* a mutex that excludes nobody
lock_any(l, thread) == TRUE

\* a thread may take the mutex when nobody owns it or it owns it already
lock_free_for(l, thread) == l.owner = "none" \/ l.owner = thread

\* a plain lock(): the wait never gives up
never_times_out(l, thread) == FALSE

\* try_lock_for(10 ms) gives up when another thread still owns the mutex
try_lock_times_out(l, thread) == ~lock_free_for(l, thread)

acquire(l, thread) == [owner |-> thread, count |-> l.count + 1]
unlock(l) == IF l.count <= 1 THEN Free ELSE [l EXCEPT !.count = @ - 1]

\* a callback that runs its body whether or not it got the mutex
capture_audio_unlocked(s, audio, muted, now, acquired) ==
    capture_audio(s, audio, muted, now)

\* WAVSource::capture_audio from its entry: audio # nullptr, then the
\* outcome of try_lock_for decides whether the body runs at all
capture_audio_try(s, audio, muted, now, acquired) ==
    IF ~acquired THEN s ELSE capture_audio(s, audio, muted, now)

---------------------------------------------------------------------------
(* Inputs *)

\* settings records handed to update()
Settings(names, modes, smoothings, floors) ==
    [ audio_source : names,
      channel_mode : modes,
      channel : {0},
      tsmoothing : {sm[1] : sm \in smoothings},
      gravity : {sm[2] : sm \in smoothings},
      fast_peaks : {sm[3] : sm \in smoothings},
      floor : floors,
      ceiling : {0},
      cutoff_low : {P_CUTOFF_LOW_DEFAULT},
      cutoff_high : {P_CUTOFF_HIGH_DEFAULT},
      ignore_mute : {FALSE},
      fft_size : {FftLen},
      normalize_volume : {FALSE},
      volume_target : {-3},
      max_gain : {30} ]

\* <<tsmoothing, gravity (halves), fast_peaks>> as they are configured together
Smoothings ==
    { <<"NONE", 0, FALSE>>, <<"EXPONENTIAL", 1, FALSE>>, <<"EXPONENTIAL", 2, TRUE>> }

WellFormed(cfg) == <<cfg.tsmoothing, cfg.gravity, cfg.fast_peaks>> \in Smoothings

Configs ==
    { cfg \in Settings({"named"}, {"MONO", "STEREO"}, Smoothings, {-2}) :
        WellFormed(cfg) }

\* the configurations without temporal smoothing
PlainConfigs == { cfg \in Configs : cfg.tsmoothing = "NONE" }

\* one configuration: mono, no smoothing
MonoConfigs == { cfg \in PlainConfigs : cfg.channel_mode = "MONO" }

\* magnitude spectra the transform may return for a non-zero window
Spectra(s, mags) == [Bins(s) -> mags]
Mags == {0, 1, MaxMag}

\* the transform outputs that matter in state s: channels that are not
\* captured get the zero spectrum
FftOutputs(s, mags) ==
    { f \in [0..1 -> Spectra(s, mags \cup {0})] :
        \A c \in 0..1 :
            IF c < s.m_capture_channels
            THEN f[c] \in Spectra(s, mags)
            ELSE f[c] = [i \in Bins(s) |-> 0] }

\* the time stamp of a delivery of `frames` frames at time now: zero, late,
\* ending exactly now, starting now, early, at the edge of plausibility,
\* and implausible
StampOf(kind, now, frames) ==
    LET audio_len == audio_frames_to_ns(SamplesPerSec, frames)
    IN CASE kind = "zero" -> 0
         [] kind = "late" -> now - audio_len - NsPerSec
         [] kind = "punctual" -> now - audio_len
         [] kind = "now" -> now
         [] kind = "early" -> now + NsPerSec
         [] kind = "edge" -> now + MAX_TS_DELTA
         [] OTHER -> now + MAX_TS_DELTA + 1

StampKinds == {"zero", "late", "punctual", "now", "early", "edge", "bogus"}

\* audio_data blocks: per input channel a null pointer, silence or signal
AudioData(frames, stampkinds, datas, now) ==
    { [frames |-> f, timestamp |-> StampOf(k, now, f), data |-> d] :
        f \in frames, k \in stampkinds, d \in datas }

\* both channels carry the same kind of data
SameData(kinds) == { [c \in 0..1 |-> k] : k \in kinds }
\* each channel carries its own kind of data
AnyData(kinds) == [0..1 -> kinds]

---------------------------------------------------------------------------
(* History *)

NoEv == [op |-> "init", path |-> "", pre |-> << >>]

NoHist ==
    [ zero_ticks |-> 0,      \* consecutive ticks that processed only zero windows
      acc |-> 0,             \* tick seconds since the last tick-driven attempt
      had_attempt |-> FALSE, \* a tick has attempted recapture before
      upd_since |-> FALSE,   \* update() ran since that attempt
      wait |-> 0 ]           \* tick seconds spent lost while the source exists

\* the state check_audio_capture leaves, and its verdict, for the tick that
\* starts in s
Checked(s, seconds, alive, now) ==
    check_audio_capture([s EXCEPT !.m_tick_ts = now], seconds, alive)

\* which branch a tick takes, from the state tick() starts in
TickPath(s, seconds, alive, now) ==
    LET c == Checked(s, seconds, alive, now)
    IN IF ~c.ok THEN "lost"
       ELSE IF c.s.m_capture_channels = 0 THEN "nochan"
       ELSE IF TickQuiet(c.s) THEN "quiet"
       ELSE "run"

\* does the tick that starts in s call recapture_audio
Attempt(s, seconds, alive) ==
    /\ ~s.m_output_bus_captured
    /\ (s.m_audio_source = "null" \/ ~alive)
    /\ s.m_next_retry - seconds <= 0

Captured(s) == { c \in 0..1 : c < s.m_capture_channels }
Displayed(s) == { c \in 0..1 : c < (IF s.m_stereo THEN 2 ELSE 1) }

\* channels short of data for the tick that starts in s (after the check)
Underrun(s) == { c \in Captured(s) : BufSize(s.m_capturebufs[c]) < TickDtSize(s) }

\* channels whose window for this tick is all zero
ZeroWindow(s) ==
    { c \in Captured(s) \ Underrun(s) : IsZero(TickWindow(s, c)) }

TickEv(s, h, seconds, alive, now) ==
    LET c == Checked(s, seconds, alive, now)
        path == TickPath(s, seconds, alive, now)
        run == path = "run"
    IN [op |-> "tick", path |-> path,
        pre |-> [ m_decibels |-> s.m_decibels,
                  m_last_silent |-> s.m_last_silent,
                  captured |-> Captured(c.s),
                  underrun |-> IF run THEN Underrun(c.s) ELSE {},
                  zero |-> IF run THEN ZeroWindow(c.s) ELSE {},
                  lost |-> s.m_audio_source = "null"
                             /\ ~s.m_output_bus_captured,
                  attempt |-> Attempt(s, seconds, alive),
                  gap |-> Min(h.acc + seconds, RETRY_DELAY),
                  had_attempt |-> h.had_attempt,
                  upd_since |-> h.upd_since ]]

TickHist(s, h, seconds, alive, now) ==
    LET c == Checked(s, seconds, alive, now)
        path == TickPath(s, seconds, alive, now)
        allzero == path = "run" /\ ZeroWindow(c.s) = Captured(c.s)
        attempt == Attempt(s, seconds, alive)
    IN [ zero_ticks |-> IF allzero THEN Min(h.zero_ticks + 1, SilenceTicks) ELSE 0,
         acc |-> IF attempt THEN 0 ELSE Min(h.acc + seconds, RETRY_DELAY),
         had_attempt |-> h.had_attempt \/ attempt,
         upd_since |-> IF attempt THEN FALSE ELSE h.upd_since,
         wait |-> IF path = "lost" /\ alive /\ s.m_audio_source_name = "named"
                  THEN Min(h.wait + seconds, RETRY_DELAY) ELSE 0 ]

UpdateHist(h) == [h EXCEPT !.zero_ticks = 0, !.upd_since = TRUE, !.wait = 0]

CaptureEv(s, audio, now, path) ==
    [op |-> "capture", path |-> path,
     pre |-> [ w |-> IF path = "accepted" THEN << >> ELSE s,
               frames |-> audio.frames,
               size |-> [c \in 0..1 |-> BufSize(s.m_capturebufs[c])] ]]

CapturePath(s) == IF capture_guard(s) THEN "accepted" ELSE "dropped"

---------------------------------------------------------------------------
(* The handlers as atomic steps (each runs holding m_mtx) *)

Idle == [audio |-> "idle", video |-> "idle", ui |-> "idle", op |-> "none"]

EnvOf(speakers, plan_ok) ==
    [speakers |-> speakers, plan_ok |-> plan_ok,
     showing |-> showing, alive |-> src_alive]

Update(cfgs, speakers, plans) ==
    /\ pc = Idle
    /\ \E cfg \in cfgs, sp \in speakers, plan_ok \in plans :
         w' = update(w, cfg, EnvOf(sp, plan_ok), clock)
    /\ ev' = [NoEv EXCEPT !.op = "update"]
    /\ hist' = UpdateHist(hist)
    /\ UNCHANGED <<clock, src_alive, showing, lock, pc>>

Tick(secs, mags) ==
    /\ pc = Idle
    /\ \E seconds \in secs, fft \in FftOutputs(w, mags) :
         /\ w' = tick(w, seconds, fft, src_alive, clock)
         /\ ev' = TickEv(w, hist, seconds, src_alive, clock)
         /\ hist' = TickHist(w, hist, seconds, src_alive, clock)
    /\ UNCHANGED <<clock, src_alive, showing, lock, pc>>

\* the host delivers audio while the callback is registered
Delivering == (w.obs_cb /\ src_alive) \/ w.m_output_bus_captured

Capture(frames, stampkinds, datas, mutes) ==
    /\ pc = Idle
    /\ Delivering
    /\ \E audio \in AudioData(frames, stampkinds, datas, clock), muted \in mutes :
         /\ w' = capture_audio_try(w, audio, muted, clock, lock_free_for(lock, "audio"))
         /\ ev' = CaptureEv(w, audio, clock, CapturePath(w))
    /\ UNCHANGED <<clock, src_alive, showing, lock, pc, hist>>

Show ==
    /\ pc = Idle
    /\ ~showing
    /\ showing' = TRUE
    /\ w' = [w EXCEPT !.m_show = TRUE]
    /\ ev' = [NoEv EXCEPT !.op = "show"]
    /\ UNCHANGED <<clock, src_alive, lock, pc, hist>>

Hide ==
    /\ pc = Idle
    /\ showing
    /\ showing' = FALSE
    /\ w' = [w EXCEPT !.m_show = FALSE]
    /\ ev' = [NoEv EXCEPT !.op = "hide"]
    /\ UNCHANGED <<clock, src_alive, lock, pc, hist>>

\* the captured source is destroyed: its callback list goes with it
SrcDestroy ==
    /\ pc.audio = "idle"
    /\ src_alive
    /\ src_alive' = FALSE
    /\ w' = [w EXCEPT !.obs_cb = FALSE]
    /\ ev' = [NoEv EXCEPT !.op = "env"]
    /\ UNCHANGED <<clock, showing, lock, pc, hist>>

SrcCreate ==
    /\ ~src_alive
    /\ src_alive' = TRUE
    /\ ev' = [NoEv EXCEPT !.op = "env"]
    /\ UNCHANGED <<w, clock, showing, lock, pc, hist>>

Advance ==
    /\ clock < MaxClock
    /\ clock' = clock + 1
    /\ ev' = [NoEv EXCEPT !.op = "env"]
    /\ UNCHANGED <<w, src_alive, showing, lock, pc, hist>>

\* the state callbacks::create leaves: constructor, then update(settings)
InitWith(cfgs, speakers, alives, shows) ==
    /\ clock = StartClock
    /\ src_alive \in alives
    /\ showing \in shows
    /\ lock = Free
    /\ pc = Idle
    /\ ev = NoEv
    /\ hist = NoHist
    /\ \E cfg \in cfgs, sp \in speakers :
         w = update(Constructed, cfg,
                    [speakers |-> sp, plan_ok |-> TRUE,
                     showing |-> showing, alive |-> src_alive], clock)

---------------------------------------------------------------------------
(* Capture and tick timing: every time stamp, every block length *)

Init == InitWith(PlainConfigs, {1, 2}, {TRUE}, {TRUE})

Next ==
    \/ Update(PlainConfigs, {1, 2}, {TRUE})
    \/ Tick({1}, {MaxMag})
    \/ Capture(1..MaxFrames, StampKinds, SameData({"nz"}), {FALSE})
    \/ Advance

Spec == Init /\ [][Next]_vars

\* C1: in every state, each capture buffer holds at most
\* (dtsamples + m_fft_size) * sizeof(float) bytes, where dtsamples is the
\* positive audio/video drift of the last accepted delivery converted to
\* samples, itself at most MAX_TS_DELTA worth of samples.
C1_CaptureBufferBound ==
    LET dtsamples == DtSamples(w, w.m_capture_ts)
    IN /\ dtsamples <= ns_to_audio_frames(SamplesPerSec, MAX_TS_DELTA)
       /\ \A c \in 0..1 :
            BufSize(w.m_capturebufs[c]) <= (dtsamples + w.m_fft_size) * sizeof_float

\* an accepted delivery with positive drift overflowed the bound and was
\* trimmed down to exactly the bound
C1_Witness ==
    /\ ev.op = "capture" /\ ev.path = "accepted"
    /\ DtSamples(w, w.m_capture_ts) > 0
    /\ \E c \in Captured(w) :
         /\ ev.pre.size[c] + ev.pre.frames * sizeof_float
               > BufSize(w.m_capturebufs[c])
         /\ BufSize(w.m_capturebufs[c])
               = (DtSamples(w, w.m_capture_ts) + w.m_fft_size) * sizeof_float

---------------------------------------------------------------------------
(* Underrun: every channel layout and smoothing mode, deliveries of signal *)
(* that end now or lie ahead of the clock                                  *)

UnderrunInit == InitWith(Configs, {1, 2}, {TRUE}, {TRUE})

UnderrunNext ==
    \/ Update(Configs, {1, 2}, {TRUE})
    \/ Tick({1}, {MaxMag})
    \/ Capture({FftLen}, {"punctual", "early"}, SameData({"nz"}), {FALSE})

UnderrunSpec == UnderrunInit /\ [][UnderrunNext]_vars

---------------------------------------------------------------------------
(* Silence: every channel layout and smoothing mode, punctual deliveries   *)
(* of silence and of signal on either channel                              *)

SilenceInit == InitWith(Configs, {1, 2}, {TRUE}, {TRUE})

SilenceNext ==
    \/ Update(Configs, {1, 2}, {TRUE})
    \/ Tick({1}, Mags)
    \/ Capture({FftLen}, {"punctual"}, AnyData({"zero", "nz"}), {FALSE})

SilenceSpec == SilenceInit /\ [][SilenceNext]_vars

\* the bins of the frame the renderer reads
FrameBins(s, frame) == { frame[c][i] : c \in Displayed(s), i \in Bins(s) }

\* the last step was a tick that reached the channel loop of tick_spectrum
TickRan == ev.op = "tick" /\ ev.path = "run"

\* C6: a tick in which a captured channel is short of data leaves the
\* exposed frame exactly as it was before the tick.
C6_UnderrunRetainsFrame ==
    (TickRan /\ ev.pre.underrun # {}) =>
        \A c \in Displayed(w) : w.m_decibels[c] = ev.pre.m_decibels[c]

\* a tick that skipped its channels for lack of data while the frame showed
\* signal and the silence flag was clear
C6_Witness ==
    /\ TickRan /\ ev.pre.underrun = ev.pre.captured
    /\ ~ev.pre.m_last_silent
    /\ \E v \in FrameBins(w, ev.pre.m_decibels) : v > DB_MIN

\* gravity 1.0 with fast peaks: the smoothed value never falls
PeakHold(s) == s.m_tsmoothing # "NONE" /\ s.m_gravity >= 2 /\ s.m_fast_peaks

\* C7 (as stated): after enough consecutive ticks on all-zero windows the
\* silence flag is true and every bin of the exposed frame equals DB_MIN.
C7_SilenceAtDbMin ==
    hist.zero_ticks >= SilenceTicks =>
        /\ w.m_last_silent
        /\ \A v \in FrameBins(w, w.m_decibels) : v = DB_MIN

\* C7 (amended): unless the smoothing holds peaks for ever, after
\* SilenceTicks consecutive ticks on all-zero windows the silence flag is
\* true and every bin of the exposed frame is at or below m_floor - 10 dB.
C7_SilenceBelowFloor ==
    (hist.zero_ticks >= SilenceTicks /\ ~PeakHold(w)) =>
        /\ w.m_last_silent
        /\ \A v \in FrameBins(w, w.m_decibels) : v <= (w.m_floor - 10) * FX

\* silence was reached by decay under smoothing: the flag is set and the
\* frame rests below the threshold but above DB_MIN
C7_Witness ==
    /\ TickRan /\ hist.zero_ticks >= SilenceTicks
    /\ w.m_last_silent
    /\ \E v \in FrameBins(w, w.m_decibels) : v > DB_MIN

\* C8: a tick that reaches the channel loop raises the silence flag only
\* if every captured channel's window was all zero and every bin of the
\* frame exposed before the tick was at or below m_floor - 10 dB; a tick
\* with a non-zero window, or with such a bin above the threshold, ends
\* with the flag false.
C8_SilenceHysteresis ==
    TickRan =>
        LET above == \E v \in FrameBins(w, ev.pre.m_decibels) :
                        v > (w.m_floor - 10) * FX
            nonzero == (ev.pre.captured \ ev.pre.underrun) \ ev.pre.zero
        IN /\ (~ev.pre.m_last_silent /\ w.m_last_silent) =>
                (ev.pre.zero = ev.pre.captured /\ ~above)
           /\ nonzero # {} => ~w.m_last_silent
           /\ above => ~w.m_last_silent

\* the flag went from false to true in a tick over two captured channels
C8_Witness ==
    /\ TickRan
    /\ ~ev.pre.m_last_silent /\ w.m_last_silent
    /\ ev.pre.captured = {0, 1}

---------------------------------------------------------------------------
(* Source loss and retry: the captured source comes and goes, ticks of one *)
(* and two seconds                                                         *)

LossInit == InitWith(PlainConfigs, {1, 2}, BOOLEAN, {TRUE})

LossNext ==
    \/ Update(PlainConfigs, {1, 2}, {TRUE})
    \/ Tick({1, 2}, {MaxMag})
    \/ Capture({FftLen}, {"punctual"}, SameData({"nz"}), {FALSE})
    \/ SrcDestroy
    \/ SrcCreate

LossSpec == LossInit /\ [][LossNext]_vars

\* the last step was a tick that returned at the failed capture check
TickLost == ev.op = "tick" /\ ev.path = "lost"

\* C9: after every tick during which the source is lost, the renderer sees
\* silence: the silence flag is true and no bin is above the floor.
C9_LossYieldsSilence ==
    TickLost =>
        /\ w.m_last_silent
        /\ \A v \in FrameBins(w, w.m_decibels) : v <= w.m_floor * FX

\* a tick during the outage left the frame computed before it: signal above
\* the floor, silence flag clear
C9_Witness ==
    /\ TickLost
    /\ ~w.m_last_silent
    /\ \E v \in FrameBins(w, w.m_decibels) : v > w.m_floor * FX
    /\ \A c \in Displayed(w) : w.m_decibels[c] = ev.pre.m_decibels[c]

\* the last step was a tick that called recapture_audio, and not the first
TickRetried == ev.op = "tick" /\ ev.pre.attempt /\ ev.pre.had_attempt

\* once the source exists, less than RETRY_DELAY of tick time passes lost
RecaptureBounded == hist.wait < RETRY_DELAY

\* C10 (as stated): two consecutive tick-driven recapture attempts are at
\* least RETRY_DELAY of tick seconds apart, and once the named source
\* exists a tick re-establishes capture.
C10_FixedBackoff ==
    /\ TickRetried => ev.pre.gap >= RETRY_DELAY
    /\ RecaptureBounded

\* C10 (amended): two consecutive tick-driven recapture attempts with no
\* update() between them are at least RETRY_DELAY of tick seconds apart;
\* and once the named source exists, capture is re-established before
\* RETRY_DELAY of tick seconds have passed.
C10_BackoffBetweenUpdates ==
    /\ (TickRetried /\ ~ev.pre.upd_since) => ev.pre.gap >= RETRY_DELAY
    /\ RecaptureBounded

\* a retry after a full delay, with no update in between, found the source
\* again and the tick went on to process audio
C10_Witness ==
    /\ TickRetried /\ ~ev.pre.upd_since
    /\ ev.pre.lost
    /\ ev.path # "lost"
    /\ w.m_audio_source = "ref"

---------------------------------------------------------------------------
(* Threads: the audio thread delivers, the video thread ticks and renders, *)
(* the UI thread updates, shows, hides and destroys.  Each handler is split *)
(* at the points where it waits: for m_mtx, and (release_audio_capture) for *)
(* the host to remove the callback, which waits for a callback in flight   *)
(* and may run the callback once more on the removing thread.              *)

UiHolding == {"held", "removing", "reset", "free", "rebuild"}

\* the blocks the audio thread delivers in this specification
Blocks == AudioData({FftLen}, {"punctual"}, SameData({"nz"}), clock)

\* the host calls the callback (holding the source's callback mutex)
AudioInvoke ==
    /\ pc.audio = "idle"
    /\ Delivering
    /\ pc' = [pc EXCEPT !.audio = "try"]
    /\ ev' = [NoEv EXCEPT !.op = "invoke"]
    /\ UNCHANGED <<w, clock, src_alive, showing, lock, hist>>

\* try_lock_for succeeds
AudioAcquire ==
    /\ pc.audio = "try"
    /\ lock_free_for(lock, "audio")
    /\ lock' = acquire(lock, "audio")
    /\ pc' = [pc EXCEPT !.audio = "body"]
    /\ ev' = [NoEv EXCEPT !.op = "lock"]
    /\ UNCHANGED <<w, clock, src_alive, showing, hist>>

\* try_lock_for fails after its timeout: the callback returns
AudioTimeout ==
    /\ pc.audio = "try"
    /\ try_lock_times_out(lock, "audio")
    /\ \E audio \in Blocks :
         /\ w' = capture_audio_try(w, audio, FALSE, clock, FALSE)
         /\ ev' = CaptureEv(w, audio, clock, "timeout")
    /\ pc' = [pc EXCEPT !.audio = "idle"]
    /\ UNCHANGED <<clock, src_alive, showing, lock, hist>>

\* the body of the callback, then the lock_guard releases
AudioBody ==
    /\ pc.audio = "body"
    /\ \E audio \in Blocks :
         /\ w' = capture_audio_try(w, audio, FALSE, clock, TRUE)
         /\ ev' = CaptureEv(w, audio, clock, CapturePath(w))
    /\ lock' = unlock(lock)
    /\ pc' = [pc EXCEPT !.audio = "idle"]
    /\ UNCHANGED <<clock, src_alive, showing, hist>>

\* the host calls tick or render; it does neither on a source it destroys
VideoCall ==
    /\ pc.video = "idle"
    /\ pc.ui # "destroyed" /\ pc.op # "dtor"
    /\ pc' = [pc EXCEPT !.video = "wait"]
    /\ ev' = [NoEv EXCEPT !.op = "call"]
    /\ UNCHANGED <<w, clock, src_alive, showing, lock, hist>>

VideoAcquire ==
    /\ pc.video = "wait"
    /\ lock_free_for(lock, "video")
    /\ lock' = acquire(lock, "video")
    /\ pc' = [pc EXCEPT !.video = "body"]
    /\ ev' = [NoEv EXCEPT !.op = "lock"]
    /\ UNCHANGED <<w, clock, src_alive, showing, hist>>

VideoTick ==
    /\ pc.video = "body"
    /\ \E fft \in FftOutputs(w, {MaxMag}) :
         /\ w' = tick(w, 1, fft, src_alive, clock)
         /\ ev' = TickEv(w, hist, 1, src_alive, clock)
         /\ hist' = TickHist(w, hist, 1, src_alive, clock)
    /\ lock' = unlock(lock)
    /\ pc' = [pc EXCEPT !.video = "idle"]
    /\ UNCHANGED <<clock, src_alive, showing>>

\* render reads the frame and the settings
VideoRender ==
    /\ pc.video = "body"
    /\ ev' = [op |-> "render", path |-> "",
              pre |-> [m_fft_size |-> w.m_fft_size, m_decibels |-> w.m_decibels]]
    /\ lock' = unlock(lock)
    /\ pc' = [pc EXCEPT !.video = "idle"]
    /\ UNCHANGED <<w, clock, src_alive, showing, hist>>

\* the host calls update, show/hide, or destroys the source (only once
\* nothing ticks it any more)
UiCall ==
    /\ pc.ui = "idle"
    /\ \E op \in {"update", "dtor", "vis"} :
         /\ op = "dtor" => pc.video = "idle"
         /\ pc' = [pc EXCEPT !.ui = "wait", !.op = op]
    /\ ev' = [NoEv EXCEPT !.op = "call"]
    /\ UNCHANGED <<w, clock, src_alive, showing, lock, hist>>

UiAcquire ==
    /\ pc.ui = "wait"
    /\ lock_free_for(lock, "ui")
    /\ lock' = acquire(lock, "ui")
    /\ pc' = [pc EXCEPT !.ui = "held"]
    /\ ev' = [NoEv EXCEPT !.op = "lock"]
    /\ UNCHANGED <<w, clock, src_alive, showing, hist>>

UiShow ==
    /\ pc.ui = "held" /\ pc.op = "vis"
    /\ ~showing
    /\ showing' = TRUE
    /\ w' = [w EXCEPT !.m_show = TRUE]
    /\ lock' = unlock(lock)
    /\ pc' = [pc EXCEPT !.ui = "idle", !.op = "none"]
    /\ ev' = [NoEv EXCEPT !.op = "show"]
    /\ UNCHANGED <<clock, src_alive, hist>>

UiHide ==
    /\ pc.ui = "held" /\ pc.op = "vis"
    /\ showing
    /\ showing' = FALSE
    /\ w' = [w EXCEPT !.m_show = FALSE]
    /\ lock' = unlock(lock)
    /\ pc' = [pc EXCEPT !.ui = "idle", !.op = "none"]
    /\ ev' = [NoEv EXCEPT !.op = "hide"]
    /\ UNCHANGED <<clock, src_alive, hist>>

\* update / destructor: release_audio_capture up to the host call
UiClear ==
    /\ pc.ui = "held" /\ pc.op \in {"update", "dtor"}
    /\ IF HadSrc(w, src_alive)
       THEN /\ w' = release_clear(w)
            /\ pc' = [pc EXCEPT !.ui = "removing"]
       ELSE /\ w' = release_remove(release_clear(w), FALSE)
            /\ pc' = [pc EXCEPT !.ui = "reset"]
    /\ ev' = [NoEv EXCEPT !.op = "clear"]
    /\ UNCHANGED <<clock, src_alive, showing, lock, hist>>

\* obs_source_remove_audio_capture_callback returns once no callback is in
\* flight
UiRemove ==
    /\ pc.ui = "removing"
    /\ pc.audio = "idle"
    /\ w' = release_remove(w, TRUE)
    /\ pc' = [pc EXCEPT !.ui = "reset"]
    /\ ev' = [NoEv EXCEPT !.op = "remove"]
    /\ UNCHANGED <<clock, src_alive, showing, lock, hist>>

\* the same, with the callback flushed on this thread during the removal:
\* the recursive mutex lets it in
UiRemoveFlush ==
    /\ pc.ui = "removing"
    /\ pc.audio = "idle"
    /\ \E audio \in Blocks :
         /\ w' = release_remove(
                   capture_audio_try(w, audio, FALSE, clock,
                                     lock_free_for(lock, "ui")), TRUE)
         /\ ev' = [op |-> "flush", path |-> CapturePath(w),
                   pre |-> [w |-> w, frames |-> audio.frames]]
    /\ pc' = [pc EXCEPT !.ui = "reset"]
    /\ UNCHANGED <<clock, src_alive, showing, lock, hist>>

UiReset ==
    /\ pc.ui = "reset"
    /\ w' = release_reset(w)
    /\ pc' = [pc EXCEPT !.ui = "free"]
    /\ ev' = [NoEv EXCEPT !.op = "reset"]
    /\ UNCHANGED <<clock, src_alive, showing, lock, hist>>

\* free_bufs; the destructor then frees the circular buffers and returns
UiFree ==
    /\ pc.ui = "free"
    /\ w' = free_bufs(w)
    /\ IF pc.op = "dtor"
       THEN /\ pc' = [pc EXCEPT !.ui = "destroyed"]
            /\ lock' = unlock(lock)
       ELSE /\ pc' = [pc EXCEPT !.ui = "rebuild"]
            /\ lock' = lock
    /\ ev' = [NoEv EXCEPT !.op = "free"]
    /\ UNCHANGED <<clock, src_alive, showing, hist>>

\* update() from get_settings to its end
UiRebuild(cfgs, speakers) ==
    /\ pc.ui = "rebuild"
    /\ \E cfg \in cfgs, sp \in speakers :
         w' = rebuild(w, cfg, EnvOf(sp, TRUE), clock)
    /\ lock' = unlock(lock)
    /\ pc' = [pc EXCEPT !.ui = "idle", !.op = "none"]
    /\ ev' = [NoEv EXCEPT !.op = "update"]
    /\ hist' = UpdateHist(hist)
    /\ UNCHANGED <<clock, src_alive, showing>>

AudioStep == AudioAcquire \/ AudioTimeout \/ AudioBody
VideoStep == VideoAcquire \/ VideoTick \/ VideoRender
UiRemoval == UiRemove \/ UiRemoveFlush
UiStep ==
    \/ UiShow \/ UiHide \/ UiClear \/ UiReset \/ UiFree
    \/ UiRebuild(MonoConfigs, {1, 2})

LockInit == InitWith(MonoConfigs, {1, 2}, {TRUE}, {TRUE})

LockNext ==
    \/ AudioInvoke
    \/ AudioAcquire
    \/ AudioTimeout
    \/ AudioBody
    \/ VideoCall
    \/ VideoAcquire
    \/ VideoTick
    \/ VideoRender
    \/ UiCall
    \/ UiAcquire
    \/ UiShow
    \/ UiHide
    \/ UiClear
    \/ UiRemove
    \/ UiRemoveFlush
    \/ UiReset
    \/ UiFree
    \/ UiRebuild(MonoConfigs, {1, 2})

LockSpec == LockInit /\ [][LockNext]_vars

\* The audio and UI threads are scheduled; the video thread may sit in a
\* handler for as long as it likes.  The host's callback mutex is handed to
\* the remover once callbacks keep returning.
FairLockSpec ==
    /\ LockInit /\ [][LockNext]_vars
    /\ WF_vars(AudioStep)
    /\ WF_vars(UiStep)
    /\ SF_vars(UiRemoval)

\* C2: a callback whose try_lock_for fails returns having changed nothing
\* of the object, and a callback that has been invoked always returns,
\* however long the video thread keeps the mutex.
C2_CaptureNeverBlocks ==
    /\ []((ev.op = "capture" /\ ev.path = "timeout") => w = ev.pre.w)
    /\ ((pc.audio = "try") ~> (pc.audio = "idle"))

\* a delivery was dropped on the timeout while the video thread held the
\* mutex and the capture was registered with room in its buffers
C2_Witness ==
    /\ ev.op = "capture" /\ ev.path = "timeout"
    /\ lock.owner = "video"
    /\ capture_guard(w)

\* the threads inside a handler body
InBody ==
    {th \in {"audio"} : pc.audio = "body"}
      \cup {th \in {"video"} : pc.video = "body"}
      \cup {th \in {"ui"} : pc.ui \in UiHolding}

\* the configuration is whole: buffers allocated for the transform size
Consistent(s) ==
    /\ s.m_fft_size # 0
    /\ \A c \in 0..1 : c < s.m_output_channels =>
          DOMAIN s.m_decibels[c] = Bins(s)

\* C3: at most one thread is inside a handler body and it owns m_mtx; a
\* tick, a render or a delivery body never starts from, or runs in, the
\* state update() has between free_bufs and the end of the rebuild.
C3_MutualExclusion ==
    /\ Cardinality(InBody) <= 1
    /\ \A th \in InBody : lock.owner = th
    /\ (pc.audio = "body" \/ pc.video = "body") => Consistent(w)
    /\ ev.op = "tick" => DOMAIN ev.pre.m_decibels[0] # {}
    /\ ev.op = "render" =>
          ev.pre.m_fft_size # 0 /\ DOMAIN ev.pre.m_decibels[0] # {}
    /\ (ev.op = "capture" /\ ev.path = "accepted") => w.m_fft_size # 0

\* update() stands between free_bufs and the rebuild while the video thread
\* waits for the mutex
C3_Witness ==
    /\ pc.ui = "rebuild"
    /\ w.m_fft_size = 0
    /\ pc.video = "wait"

\* some step other than a new call from the host (a thread in the body of
\* tick is counted through VideoRender, which has the same guard)
Progress ==
    AudioStep \/ VideoAcquire \/ VideoRender \/ UiAcquire \/ UiRemoval \/ UiStep

Busy ==
    \/ pc.audio # "idle"
    \/ pc.video # "idle"
    \/ pc.ui \notin {"idle", "destroyed"}

\* C4: while any thread is inside or waiting for a handler some thread can
\* take a step, and an update() or destructor that has the mutex runs to
\* its end.
C4_NoDeadlock ==
    /\ [](Busy => ENABLED Progress)
    /\ ((pc.ui \in UiHolding) ~> (pc.ui \in {"idle", "destroyed"}))

\* the destructor holds m_mtx and waits for the callback to be removed
\* while a callback in flight waits for m_mtx
C4_Witness ==
    /\ pc.ui = "removing" /\ pc.op = "dtor"
    /\ pc.audio = "try"
    /\ lock.owner = "ui"

\* C5: from the point where update() or the destructor is about to free
\* the buffers, no capture is registered and no callback is in flight; and
\* a callback run during the removal finds no capture and changes nothing.
C5_TeardownOrdering ==
    /\ pc.ui \in {"free", "rebuild", "destroyed"} =>
          /\ ~w.obs_cb /\ ~w.m_output_bus_captured
          /\ w.m_audio_source = "null"
          /\ pc.audio = "idle"
          /\ ~Delivering
    /\ ev.op = "flush" =>
          /\ ev.path = "dropped"
          /\ w = release_remove(ev.pre.w, TRUE)

\* the destructor's removal ran the callback once more on its own thread
C5_Witness ==
    /\ ev.op = "flush"
    /\ pc.op = "dtor"
    /\ ev.pre.w.m_capture_channels > 0
---------------------------------------------------------------------------
(* Steps that remember the state they started in, so that a step can be
   compared with the same step on other inputs *)

NoPrev == [valid |-> FALSE]

\* what an accepted delivery leaves for the delivery that follows it
PrevOf(last) ==
    IF last.op = "capture" /\ last.path = "accepted"
    THEN [valid |-> TRUE, w |-> last.pre.w, audio |-> last.pre.audio,
          muted |-> last.pre.muted, now |-> last.pre.now]
    ELSE NoPrev

CaptureTrace(s, audio, muted, now, last) ==
    [op |-> "capture", path |-> CapturePath(s),
     pre |-> [w |-> s, audio |-> audio, muted |-> muted, now |-> now,
              prev |-> PrevOf(last)]]

TickTrace(s, seconds, fft, alive, now, last) ==
    [op |-> "tick", path |-> TickPath(s, seconds, alive, now),
     pre |-> [w |-> s, seconds |-> seconds, fft |-> fft, now |-> now,
              after_tick |-> last.op = "tick"]]

CaptureT(frames, stampkinds, datas, mutes) ==
    /\ pc = Idle
    /\ Delivering
    /\ \E audio \in AudioData(frames, stampkinds, datas, clock), muted \in mutes :
         /\ w' = capture_audio_try(w, audio, muted, clock, lock_free_for(lock, "audio"))
         /\ ev' = CaptureTrace(w, audio, muted, clock, ev)
    /\ UNCHANGED <<clock, src_alive, showing, lock, pc, hist>>

TickT(secs, mags) ==
    /\ pc = Idle
    /\ \E seconds \in secs, fft \in FftOutputs(w, mags) :
         /\ w' = tick(w, seconds, fft, src_alive, clock)
         /\ ev' = TickTrace(w, seconds, fft, src_alive, clock, ev)
    /\ UNCHANGED <<clock, src_alive, showing, lock, pc, hist>>

UpdateT(cfgs, speakers, plans) ==
    /\ pc = Idle
    /\ \E cfg \in cfgs, sp \in speakers, plan_ok \in plans :
         /\ w' = update(w, cfg, EnvOf(sp, plan_ok), clock)
         /\ ev' = [op |-> "update", path |-> "", pre |-> [w |-> w, cfg |-> cfg]]
    /\ UNCHANGED <<clock, src_alive, showing, lock, pc, hist>>

AcceptedCapture == ev.op = "capture" /\ ev.path = "accepted"

---------------------------------------------------------------------------
(* Timestamps: every kind of host timestamp, one channel *)

ClampInit == InitWith(MonoConfigs, {1}, {TRUE}, {TRUE})

ClampNext ==
    \/ UpdateT(MonoConfigs, {1}, {TRUE})
    \/ TickT({1}, {MaxMag})
    \/ CaptureT({1, MaxFrames}, StampKinds \ {"now"}, SameData({"nz"}), {FALSE})
    \/ Advance

ClampSpec == ClampInit /\ [][ClampNext]_vars

Implausible(audio, now) ==
    Max(audio.timestamp, now) - Min(audio.timestamp, now) > MAX_TS_DELTA

\* the timestamps a delivery of this length could plausibly have carried
PlausibleStamps(now, frames) ==
    { ts \in { StampOf(k, now, frames) : k \in StampKinds } :
        ~Implausible([timestamp |-> ts], now) }

\* the clocks the drift is measured against
SyncClocks(s) == {s.m_capture_ts, s.m_tick_ts, clock}

DriftBounded ==
    \A ts \in SyncClocks(w) :
        /\ get_audio_sync(w, ts) <= MAX_TS_DELTA
        /\ get_audio_sync(w, ts) >= -MAX_TS_DELTA

ImplausibleResets ==
    (AcceptedCapture /\ Implausible(ev.pre.audio, ev.pre.now))
        => w.m_audio_ts = ev.pre.now

\* the delivery before this one was implausible, this one is plausible
Recovered ==
    /\ AcceptedCapture
    /\ ~Implausible(ev.pre.audio, ev.pre.now)
    /\ ev.pre.prev.valid
    /\ Implausible(ev.pre.prev.audio, ev.pre.prev.now)

NoPermanentDesync ==
    Recovered =>
        LET p == ev.pre.prev
        IN \A ts \in PlausibleStamps(p.now, p.audio.frames) :
             LET good == [p.audio EXCEPT !.timestamp = ts]
                 alt == capture_audio(capture_audio(p.w, good, p.muted, p.now),
                                      ev.pre.audio, ev.pre.muted, ev.pre.now)
             IN /\ alt.m_audio_ts = w.m_audio_ts
                /\ \A c \in SyncClocks(w) : DtSamples(alt, c) = DtSamples(w, c)

\* C11: the drift get_audio_sync returns never exceeds MAX_TS_DELTA in
\* magnitude; a delivery whose timestamp is further than MAX_TS_DELTA from the
\* capture clock sets m_audio_ts to the capture time; and the plausible
\* delivery after an implausible one leaves m_audio_ts and the trim bounds as
\* if the implausible delivery had carried a plausible timestamp
C11_DriftClamped == DriftBounded /\ ImplausibleResets /\ NoPermanentDesync

C11_Witness ==
    /\ Recovered
    /\ w.m_audio_ts # w.m_capture_ts
    /\ DtSamples(w, w.m_capture_ts) > 0

---------------------------------------------------------------------------
(* The three classes create() chooses from *)

Classes == {"WAVSourceGeneric", "WAVSourceAVX", "WAVSourceAVX2"}

\* callbacks::create: the class by CPU feature, then update(settings)
BackendInit ==
    /\ clock = StartClock
    /\ src_alive = TRUE
    /\ showing = TRUE
    /\ lock = Free
    /\ pc = Idle
    /\ ev = NoEv
    /\ hist = NoHist
    /\ \E cfg \in MonoConfigs, isa \in Classes :
         w = update([Constructed EXCEPT !.isa = isa], cfg,
                    [speakers |-> 1, plan_ok |-> TRUE,
                     showing |-> showing, alive |-> src_alive], clock)

BackendNext ==
    \/ UpdateT(MonoConfigs, {1}, {TRUE})
    \/ TickT({1}, {MaxMag})
    \/ CaptureT({FftLen}, {"punctual", "early"}, SameData({"zero", "nz"}), {FALSE})
    \/ Advance

BackendSpec == BackendInit /\ [][BackendNext]_vars

\* the tick that just ran, run again from the same state by class isa
TickAs(isa) ==
    tick([ev.pre.w EXCEPT !.isa = isa], ev.pre.seconds, ev.pre.fft,
         src_alive, ev.pre.now)

SameOutcome(a, b) ==
    /\ a.m_last_silent = b.m_last_silent
    /\ a.m_capturebufs = b.m_capturebufs
    /\ a.m_decibels = b.m_decibels

\* C12: from the same configuration, buffer contents, timestamps and tick
\* duration, every class's tick_spectrum leaves the same silence flag, the
\* same retained buffer contents and the same decibel arrays
C12_BackendsAgree ==
    (ev.op = "tick") => \A isa \in Classes : SameOutcome(TickAs(isa), w)

\* a tick of the generic class from a state that holds a whole window,
\* which another class would have finished differently
C12_Witness ==
    /\ ev.op = "tick" /\ ev.path = "run"
    /\ w.isa = "WAVSourceGeneric"
    /\ BufSize(ev.pre.w.m_capturebufs[0]) >= ev.pre.w.m_fft_size * sizeof_float
    /\ ~SameOutcome(TickAs("WAVSourceAVX"), w)
    /\ ~SameOutcome(TickAs("WAVSourceAVX2"), w)
---------------------------------------------------------------------------
(* Windows: deliveries of every length, deliveries that continue the
   previous one, ticks *)

\* a delivery whose timestamp continues where the last delivery ended
CaptureNext(frames, datas, mutes) ==
    /\ pc = Idle
    /\ Delivering
    /\ \E f \in frames, d \in datas, muted \in mutes :
         LET audio == [frames |-> f, timestamp |-> w.m_audio_ts, data |-> d]
         IN /\ w' = capture_audio_try(w, audio, muted, clock,
                                      lock_free_for(lock, "audio"))
            /\ ev' = CaptureTrace(w, audio, muted, clock, ev)
    /\ UNCHANGED <<clock, src_alive, showing, lock, pc, hist>>

WindowInit == InitWith(MonoConfigs, {1}, {TRUE}, {TRUE})

\* deliveries are explored while the buffers hold at most MaxHeld samples
Room == \A c \in 0..1 : Len(w.m_capturebufs[c]) <= MaxHeld

\* the lengths of the two parts of a window
Parts == {1, FftLen - 1}

WindowNext ==
    \/ UpdateT(MonoConfigs, {1}, {TRUE})
    \/ TickT({1}, {MaxMag})
    \/ (Room /\ CaptureT(Parts, {"punctual", "now", "edge"},
                          SameData({"nz", "hi"}), {FALSE}))
    \/ (Room /\ CaptureNext(Parts, SameData({"nz", "hi"}), {FALSE}))
    \/ Advance

WindowSpec == WindowInit /\ [][WindowNext]_vars

\* the last two steps delivered one window in two contiguous parts
SplitPair ==
    /\ AcceptedCapture
    /\ ev.pre.prev.valid
    /\ ev.pre.prev.audio.frames + ev.pre.audio.frames = w.m_fft_size
    /\ ev.pre.audio.timestamp = ev.pre.prev.audio.timestamp
         + audio_frames_to_ns(SamplesPerSec, ev.pre.prev.audio.frames)
    /\ ev.pre.audio.data = ev.pre.prev.audio.data
    /\ ev.pre.muted = ev.pre.prev.muted
    /\ ev.pre.now = ev.pre.prev.now

\* the same window delivered by one call from the state the pair started in
Whole ==
    LET p == ev.pre.prev
    IN capture_audio(p.w, [p.audio EXCEPT !.frames = w.m_fft_size],
                     p.muted, p.now)

SameTick(a, b) ==
    \A fft \in FftOutputs(b, {MaxMag}) :
        LET ta == tick(a, 1, fft, src_alive, clock)
            tb == tick(b, 1, fft, src_alive, clock)
        IN /\ ta.m_decibels = tb.m_decibels
           /\ ta.m_last_silent = tb.m_last_silent
           /\ ta.m_capturebufs = tb.m_capturebufs

PlausiblePair ==
    /\ SplitPair
    /\ ~Implausible(ev.pre.audio, ev.pre.now)
    /\ ~Implausible(ev.pre.prev.audio, ev.pre.prev.now)

Trimming ==
    \/ AcceptedCapture
    \/ (ev.op = "tick" /\ ~Attempt(ev.pre.w, ev.pre.seconds, src_alive))

HoldsWindow(s, c) == BufSize(s.m_capturebufs[c]) >= s.m_fft_size * sizeof_float

\* C14: a capture buffer that holds at least one window (m_fft_size samples)
\* still holds at least one window after any delivery and after any tick
\* that does not release the capture
C14_RetainedHistory ==
    Trimming =>
        \A c \in Captured(w) : HoldsWindow(ev.pre.w, c) => HoldsWindow(w, c)

\* a tick dropped samples from a buffer that held more than one window
C14_Witness ==
    /\ ev.op = "tick" /\ ev.path = "run"
    /\ HoldsWindow(ev.pre.w, 0)
    /\ Len(w.m_capturebufs[0]) < Len(ev.pre.w.m_capturebufs[0])

\* the state the channel loop of the last tick started in
Before == Checked(ev.pre.w, ev.pre.seconds, src_alive, ev.pre.now).s

\* the last step was a tick whose channel loop copied a window of channel 0
Copied ==
    /\ ev.op = "tick" /\ ev.path = "run"
    /\ 0 \notin Underrun(Before)

\* n samples of buf that end back samples before its end
Slice(buf, back, n) == SubSeq(buf, Len(buf) - back - n + 1, Len(buf) - back)

\* the copy left the window at the front of the buffer
NotConsumed ==
    Copied =>
        /\ peek_front(w.m_capturebufs[0], w.m_fft_size * sizeof_float)
             = TickWindow(Before, 0)
        /\ w.m_capturebufs[0]
             = Slice(Before.m_capturebufs[0], 0,
                     DtSamples(Before, Before.m_tick_ts) + w.m_fft_size)

\* a tick straight after a tick (same clock, no delivery) copies the window
\* the first one left and leaves the buffer as it was
SecondTickSame ==
    (Copied /\ ev.pre.after_tick) =>
        /\ TickWindow(Before, 0)
             = peek_front(ev.pre.w.m_capturebufs[0], w.m_fft_size * sizeof_float)
        /\ w.m_capturebufs = ev.pre.w.m_capturebufs

\* C15: the block tick_spectrum copies is the most recent m_fft_size samples
\* of the buffer, the copy consumes nothing, and a second tick without a
\* delivery in between copies the same window
C15_PeekMostRecent ==
    /\ Copied => TickWindow(Before, 0)
                   = Slice(Before.m_capturebufs[0], 0, w.m_fft_size)
    /\ NotConsumed
    /\ SecondTickSame

\* C15 (amended): the block copied is the m_fft_size samples that end drift
\* samples before the end of the buffer (the most recent ones when the drift
\* is not positive); the copy consumes nothing; a second tick without a
\* delivery in between copies the same window
C15_PeekAtDrift ==
    /\ Copied => TickWindow(Before, 0)
                   = Slice(Before.m_capturebufs[0],
                           DtSamples(Before, Before.m_tick_ts), w.m_fft_size)
    /\ NotConsumed
    /\ SecondTickSame

\* a second tick in a row copied a window that is not the newest samples
C15_Witness ==
    /\ Copied /\ ev.pre.after_tick
    /\ DtSamples(Before, Before.m_tick_ts) > 0
    /\ TickWindow(Before, 0) # Slice(Before.m_capturebufs[0], 0, w.m_fft_size)

\* an accepted delivery after an accepted delivery, no release in between
\* (release_audio_capture leaves m_audio_ts = 0)
Successive == AcceptedCapture /\ ev.pre.w.m_audio_ts # 0

\* C16: m_audio_ts never decreases from one accepted delivery to the next
\* between reconfigurations, whatever timestamps the host delivers
C16_AudioTsMonotonic == Successive => w.m_audio_ts >= ev.pre.w.m_audio_ts

\* two plausible deliveries in a row, the second leaving an earlier m_audio_ts
C16_Witness ==
    /\ Successive
    /\ ev.pre.prev.valid
    /\ ~Implausible(ev.pre.audio, ev.pre.now)
    /\ ~Implausible(ev.pre.prev.audio, ev.pre.prev.now)
    /\ w.m_audio_ts < ev.pre.w.m_audio_ts

---------------------------------------------------------------------------
(* Muted and absent data *)

MuteConfigs ==
    { [cfg EXCEPT !.ignore_mute = b] : cfg \in MonoConfigs, b \in BOOLEAN }

MuteInit == InitWith(MuteConfigs, {1}, {TRUE}, {TRUE})

MuteNext ==
    \/ UpdateT(MuteConfigs, {1}, {TRUE})
    \/ TickT({1}, {MaxMag})
    \/ CaptureT({1, MaxFrames}, {"punctual", "early"},
                SameData({"nz", "null"}), BOOLEAN)

MuteSpec == MuteInit /\ [][MuteNext]_vars

\* the last delivery was muted (mute not ignored) or carried no data for c
Zeroed(c) ==
    /\ AcceptedCapture
    /\ c \in Captured(w)
    /\ \/ (ev.pre.muted /\ ~ev.pre.w.m_ignore_mute)
       \/ ev.pre.audio.data[ev.pre.w.m_channel_base + c] = "null"

\* the same delivery, audible and with data
Audible ==
    capture_audio(ev.pre.w,
                  [ev.pre.audio EXCEPT !.data = [i \in 0..1 |-> "nz"]],
                  FALSE, ev.pre.now)

\* C17: a muted delivery (mute not ignored) or one without data appends
\* exactly F zero samples, and the buffer size after the trim is the size an
\* audible delivery of F frames with the same timestamp leaves
C17_MutedAppendsZeros ==
    \A c \in 0..1 :
        Zeroed(c) =>
            LET all == ev.pre.w.m_capturebufs[c] \o Zeros(ev.pre.audio.frames)
                buf == w.m_capturebufs[c]
            IN /\ Len(buf) = Min(Len(all), DtSamples(w, w.m_capture_ts) + w.m_fft_size)
               /\ buf = Slice(all, 0, Len(buf))
               /\ BufSize(buf) = BufSize(Audible.m_capturebufs[c])

\* a muted delivery of signal, on top of signal, that was trimmed
C17_Witness ==
    /\ Zeroed(0)
    /\ ev.pre.muted
    /\ ev.pre.audio.data[0] = "nz"
    /\ ~IsZero(ev.pre.w.m_capturebufs[0])
    /\ Len(w.m_capturebufs[0])
         < Len(ev.pre.w.m_capturebufs[0]) + ev.pre.audio.frames

---------------------------------------------------------------------------
(* Smoothing state across silence and hiding *)

\* mono, exponential smoothing
SmoothConfigs ==
    { cfg \in Configs : cfg.tsmoothing # "NONE" /\ cfg.channel_mode = "MONO" }

HiddenInit == InitWith(SmoothConfigs, {1}, {TRUE}, {TRUE})

HiddenNext ==
    \/ UpdateT(SmoothConfigs, {1}, {TRUE})
    \/ TickT({1}, Mags)
    \/ CaptureT({FftLen}, {"punctual"}, SameData({"zero", "nz"}), {FALSE})
    \/ Show
    \/ Hide

HiddenSpec == HiddenInit /\ [][HiddenNext]_vars

\* the smoothing accumulator of every captured channel is all zero
SmoothZero(s) ==
    \A c \in Captured(s) :
        s.m_tsmooth_buf[c] # null =>
            \A i \in Bins(s) : s.m_tsmooth_buf[c][i] = 0

\* the last step was the first tick back to Active after a Silent frame
BackToActive ==
    /\ ev.op = "tick"
    /\ ev.pre.w.m_last_silent
    /\ ~w.m_last_silent

\* C18: the smoothing accumulator of every captured channel is all zero once
\* a tick has run hidden, and is all zero at the start of the first tick that
\* goes from Silent (or hidden) back to Active, so that the first active
\* frame is blended against zero
C18_SmoothingReset ==
    /\ (ev.op = "tick" /\ ~w.m_show) => SmoothZero(w)
    /\ BackToActive => SmoothZero(ev.pre.w)

\* the first active tick after silence started from a non-zero accumulator
C18_Witness ==
    /\ BackToActive
    /\ w.m_show
    /\ ~SmoothZero(ev.pre.w)
    /\ \E i \in Bins(w) : w.m_tsmooth_buf[0][i] > 0

---------------------------------------------------------------------------
(* Volume normalisation *)

GainFft == 2 * FftLen

GainConfigs ==
    { [cfg EXCEPT !.normalize_volume = TRUE, !.fft_size = GainFft,
                  !.max_gain = g] :
        cfg \in PlainConfigs, g \in {30, 2} }

GainInit == InitWith(GainConfigs, {1}, {TRUE}, {TRUE})

GainNext ==
    \/ UpdateT(GainConfigs, {1}, {TRUE})
    \/ TickT({1}, {MaxMag})
    \/ CaptureT({1, GainFft}, {"punctual"}, SameData({"zero", "nz"}), {FALSE})

GainSpec == GainInit /\ [][GainNext]_vars

\* the last step was a tick with normalisation enabled that got as far as
\* the channel loop
NormalizedTick ==
    /\ ev.op = "tick"
    /\ ev.path = "run"
    /\ ev.pre.w.m_normalize_volume

\* the same tick on the same state with normalisation switched off
Unnormalized ==
    tick([ev.pre.w EXCEPT !.m_normalize_volume = FALSE],
         ev.pre.seconds, ev.pre.fft, src_alive, ev.pre.now)

\* C19: with volume normalisation enabled a tick that does not end silent
\* adds the one value min(m_volume_target - dbfs(m_input_rms), m_max_gain)
\* to every bin, bin 0 included, of every displayed channel, and a tick
\* that ends silent adds nothing.
C19_UniformGain ==
    NormalizedTick =>
        LET gain == volume_compensation(w, w.m_volume_target, w.m_max_gain)
        IN IF w.m_last_silent
           THEN w.m_decibels = Unnormalized.m_decibels
           ELSE \A c \in Displayed(w) : \A i \in Bins(w) :
                  w.m_decibels[c][i] = Unnormalized.m_decibels[c][i] + gain

\* a normalised tick that shows a spectrum and whose gain is not zero
C19_Witness ==
    /\ NormalizedTick
    /\ ~w.m_last_silent
    /\ w.m_input_rms > 0
    /\ volume_compensation(w, w.m_volume_target, w.m_max_gain) # 0
    /\ \A c \in Displayed(w) : \A i \in Bins(w) \ {0} :
          w.m_decibels[c][i] # Unnormalized.m_decibels[c][i]

---------------------------------------------------------------------------
(* The FFT size update() ends with, at the program's own scale.  The steps
   above run with windows of FftLen samples; here the size arithmetic of
   get_settings() and update() is applied to the sizes a settings object
   can hold.  size_t is SIZE_BITS wide instead of 64. *)

SIZE_BITS == 16
SizeMax == 2 ^ SIZE_BITS
FFT_MIN == 128
FFT_ALIGN == 16
MaxRequest == 160

\* (size_t)x for an integer x
to_size_t(x) == x % SizeMax

\* n & -16 on a size_t
align_down(n) == n - (n % FFT_ALIGN)

\* get_settings: the P_FFT_SIZE setting as stored in m_fft_size
fft_size_setting(requested) ==
    LET n == to_size_t(requested)
    IN IF n < FFT_MIN THEN FFT_MIN
       ELSE IF n % FFT_ALIGN # 0 THEN align_down(n)
       ELSE n

\* update: the size that follows the video frame rate fps[1] / fps[2]
auto_fft_size(samples_per_sec, fps) ==
    LET n == align_down(to_size_t((samples_per_sec * fps[2]) \div fps[1]))
    IN IF n < FFT_MIN THEN FFT_MIN ELSE n

Requested == (0 - MaxRequest) .. MaxRequest
SampleRates == {8000, 44100, 48000}
FrameRates == {<<24, 1>>, <<30000, 1001>>, <<60, 1>>, <<500, 1>>}

SizeInit ==
    /\ clock = StartClock
    /\ src_alive = TRUE
    /\ showing = TRUE
    /\ lock = Free
    /\ pc = Idle
    /\ ev = NoEv
    /\ hist = NoHist
    /\ w = Constructed

\* update() in spectrum mode with a manual size
UpdateManual ==
    /\ \E requested \in Requested :
         /\ w' = [w EXCEPT !.m_fft_size = fft_size_setting(requested)]
         /\ ev' = [op |-> "update", path |-> "manual",
                   pre |-> [requested |-> requested]]
    /\ UNCHANGED <<clock, src_alive, showing, lock, pc, hist>>

\* update() in spectrum mode with the automatic size
UpdateAuto ==
    /\ \E sr \in SampleRates, fps \in FrameRates :
         /\ w' = [w EXCEPT !.m_fft_size = auto_fft_size(sr, fps)]
         /\ ev' = [op |-> "update", path |-> "auto",
                   pre |-> [rate |-> sr, fps |-> fps]]
    /\ UNCHANGED <<clock, src_alive, showing, lock, pc, hist>>

SizeNext == UpdateManual \/ UpdateAuto

SizeSpec == SizeInit /\ [][SizeNext]_vars

\* the size the sentence promises for a wanted size n
Promised(n) == IF n < FFT_MIN THEN FFT_MIN ELSE n - (n % FFT_ALIGN)

\* C20: after every update() in spectrum mode m_fft_size is at least 128
\* and a multiple of 16; a configured size below 128 becomes 128 and any
\* other size is rounded down to a multiple of 16.
C20_FftSizeRule ==
    ev.op = "update" =>
        /\ w.m_fft_size >= FFT_MIN
        /\ w.m_fft_size % FFT_ALIGN = 0
        /\ ev.path = "manual" => w.m_fft_size = Promised(ev.pre.requested)
        /\ ev.path = "auto" =>
             w.m_fft_size =
                Promised((ev.pre.rate * ev.pre.fps[2]) \div ev.pre.fps[1])

\* a manual update() whose configured size is below 128
C20_Witness ==
    /\ ev.op = "update"
    /\ ev.path = "manual"
    /\ ev.pre.requested < FFT_MIN
    /\ w.m_fft_size # FFT_MIN

---------------------------------------------------------------------------
(* Malformed ranges in the settings *)

Cutoffs == {P_CUTOFF_LOW_DEFAULT, 120, P_CUTOFF_HIGH_DEFAULT}
Levels == {-120, P_FLOOR_DEFAULT, P_CEILING_DEFAULT}

RangeConfigs ==
    { [cfg EXCEPT !.cutoff_low = lo, !.cutoff_high = hi,
                  !.floor = fl, !.ceiling = ce] :
        cfg \in { c \in MonoConfigs : c.fast_peaks = FALSE },
        lo \in Cutoffs, hi \in Cutoffs, fl \in Levels, ce \in Levels }

RangeInit == InitWith(RangeConfigs, {1}, {TRUE}, {TRUE})

RangeNext == UpdateT(RangeConfigs, {1}, {TRUE})

RangeSpec == RangeInit /\ [][RangeNext]_vars

InvertedCutoff(cfg) == cfg.cutoff_high <= cfg.cutoff_low
NoDbRange(cfg) == cfg.ceiling <= cfg.floor

---------------------------------------------------------------------------
(* filter.hpp: the Gaussian smoothing of the interpolated frame.  Arrays are
   functions on 0 .. n - 1 as in the program.  Weights are whole numbers:
   sigma is such that exp(-(i * i) / expdenom) is 2 ^ -(i * i), and the
   common factor coeff is the power of two that makes the outermost weight
   1.  The kernel radius is an input instead of ceil(3 * sigma), so that
   arrays shorter than the kernel occur. *)

MaxRadius == 3
MaxSamples == 4

\* the sum of f[i] for lo <= i < hi
RECURSIVE SumRange(_, _, _)
SumRange(f, lo, hi) ==
    IF lo >= hi THEN 0 ELSE f[lo] + SumRange(f, lo + 1, hi)

\* make_gauss_kernel
make_gauss_kernel(radius) ==
    LET size == (2 * radius) - 1
        weights == [j \in 0 .. size - 1 |->
                      LET i == j - radius + 1
                      IN 2 ^ (((radius - 1) * (radius - 1)) - (i * i))]
    IN [weights |-> weights, radius |-> radius, size |-> size,
        sum |-> SumRange(weights, 0, size)]

\* weighted_avg: whether the kernel reaches past an end of the array
AtBoundary(n, kernel, index) ==
    LET start == (index - kernel.radius) + 1
        stop == index + kernel.radius
    IN (start < 0) \/ (stop > n)

\* weighted_avg: the array positions its loop visits
Taps(n, kernel, index) ==
    LET start == (index - kernel.radius) + 1
        stop == index + kernel.radius
    IN IF AtBoundary(n, kernel, index)
       THEN Max(start, 0) .. (Min(stop, n) - 1)
       ELSE start .. (stop - 1)

\* weighted_avg: the weighted sum and what it is divided by
weighted_parts(samples, n, kernel, index) ==
    LET start == (index - kernel.radius) + 1
        taps == Taps(n, kernel, index)
        lo == Max(start, 0)
        hi == IF AtBoundary(n, kernel, index)
              THEN Min(index + kernel.radius, n) ELSE index + kernel.radius
        prod == [i \in taps |-> samples[i] * kernel.weights[i - start]]
        wts == [i \in taps |-> kernel.weights[i - start]]
    IN [sum |-> SumRange(prod, IF AtBoundary(n, kernel, index) THEN lo ELSE start, hi),
        divisor |-> IF AtBoundary(n, kernel, index)
                    THEN SumRange(wts, lo, hi) ELSE kernel.sum]

\* weighted_avg dividing by the full kernel sum at every position
weighted_avg_full(samples, n, kernel, index) ==
    weighted_parts(samples, n, kernel, index).sum \div kernel.sum

weighted_avg(samples, n, kernel, index) ==
    LET p == weighted_parts(samples, n, kernel, index)
    IN p.sum \div p.divisor

\* apply_filter
apply_filter(samples, n, kernel) ==
    [i \in 0 .. n - 1 |-> weighted_avg(samples, n, kernel, i)]

SampleLevels == {0, FX, 2 * FX}

FilterInit ==
    /\ clock = StartClock
    /\ src_alive = TRUE
    /\ showing = TRUE
    /\ lock = Free
    /\ pc = Idle
    /\ ev = NoEv
    /\ hist = NoHist
    /\ \E radius \in 1 .. MaxRadius, n \in 1 .. MaxSamples :
         \E samples \in [0 .. n - 1 -> SampleLevels] :
            w = [m_kernel |-> make_gauss_kernel(radius),
                 size |-> n, m_interp_buf |-> samples]

\* update(): a new kernel for a new filter radius
NewKernel ==
    /\ \E radius \in 1 .. MaxRadius :
         /\ w' = [w EXCEPT !.m_kernel = make_gauss_kernel(radius)]
         /\ ev' = [op |-> "kernel", path |-> "", pre |-> w]
    /\ UNCHANGED <<clock, src_alive, showing, lock, pc, hist>>

\* render(): the frame is smoothed
ApplyFilter ==
    /\ w' = [w EXCEPT !.m_interp_buf = apply_filter(@, w.size, w.m_kernel)]
    /\ ev' = [op |-> "filter", path |-> "", pre |-> w]
    /\ UNCHANGED <<clock, src_alive, showing, lock, pc, hist>>

FilterNext == NewKernel \/ ApplyFilter

FilterSpec == FilterInit /\ [][FilterNext]_vars

\* the weights weighted_avg multiplied samples by at one position
AppliedWeights(n, kernel, index) ==
    LET start == (index - kernel.radius) + 1
    IN [i \in Taps(n, kernel, index) |-> kernel.weights[i - start]]

RECURSIVE SumAll(_)
SumAll(f) ==
    IF DOMAIN f = {} THEN 0
    ELSE LET i == CHOOSE x \in DOMAIN f : TRUE
         IN f[i] + SumAll([x \in DOMAIN f \ {i} |-> f[x]])

Flat(samples, n) == \A i \in 0 .. n - 1 : samples[i] = samples[0]

\* C22: at every output position of apply_filter the divisor of
\* weighted_avg is the sum of exactly the weights applied there (the
\* precomputed kernel sum when the whole kernel lies inside the array, the
\* in-range sum otherwise), it is never zero because the centre tap is
\* always applied, and so a flat frame stays flat.
C22_GaussRenormalized ==
    ev.op = "filter" =>
        LET s == ev.pre
        IN \A i \in 0 .. s.size - 1 :
             LET p == weighted_parts(s.m_interp_buf, s.size, s.m_kernel, i)
                 taps == Taps(s.size, s.m_kernel, i)
             IN /\ taps \subseteq 0 .. s.size - 1
                /\ i \in taps
                /\ p.divisor = SumAll(AppliedWeights(s.size, s.m_kernel, i))
                /\ p.divisor > 0
                /\ ~AtBoundary(s.size, s.m_kernel, i) =>
                     /\ p.divisor = s.m_kernel.sum
                     /\ Cardinality(taps) = s.m_kernel.size
                /\ Flat(s.m_interp_buf, s.size) =>
                     w.m_interp_buf[i] = s.m_interp_buf[i]

\* a frame shorter than the kernel, and one with interior positions, were
\* filtered
C22_Witness ==
    /\ ev.op = "filter"
    /\ ev.pre.size < ev.pre.m_kernel.size
    /\ ev.pre.m_kernel.radius > 1
    /\ Flat(ev.pre.m_interp_buf, ev.pre.size)
    /\ ev.pre.m_interp_buf[0] > 0

---------------------------------------------------------------------------
(* filter.hpp: Lanczos interpolation of the spectrum.  Positions x are in
   half bins (x = 5 is bin 2.5), weights in thousandths. *)

LanczosOne == 1000
MaxBins == 6

\* math_funcs.hpp lanczos(x, w) for the radii the program uses, x in half
\* bins: sinc(x) * sinc(x / w) inside the support, 0 outside and at every
\* whole bin but 0
lanczos(x, radius) ==
    LET a == IF x < 0 THEN 0 - x ELSE x
    IN IF ~(a < 2 * radius) THEN 0
       ELSE IF a = 0 THEN LanczosOne
       ELSE IF a % 2 = 0 THEN 0
       ELSE IF radius = 3
       THEN CASE a = 1 -> 608 [] a = 3 -> -135 [] OTHER -> 24
       ELSE CASE a = 1 -> 620 [] a = 3 -> -166 [] a = 5 -> 60 [] OTHER -> -13

\* make_lanczos_kernel: 2 * radius weights for each position
make_lanczos_kernel(indices, radius) ==
    LET size == Len(indices)
    IN [weights |-> [k \in 0 .. (size * radius * 2) - 1 |->
                       LET i == k \div (radius * 2)
                           x == indices[i + 1]
                           ix == x \div 2
                           start == ix - radius + 1
                           j == start + (k % (radius * 2))
                       IN lanczos(x - (2 * j), radius)],
        radius |-> radius]

\* lanczos_convolve: the array positions its loop visits
LanczosTaps(sz, kernel, index) ==
    LET start == (index - kernel.radius) + 1
        stop == Min(index + kernel.radius + 1, sz)
    IN Max(start, 0) .. (stop - 1)

\* lanczos_convolve, the result in thousandths of the sample unit
lanczos_convolve(samples, sz, kernel, index, kernel_base) ==
    LET start == (index - kernel.radius) + 1
        stop == Min(index + kernel.radius + 1, sz)
        prod == [i \in LanczosTaps(sz, kernel, index) |->
                   samples[i] * kernel.weights[kernel_base + (i - start)]]
    IN SumRange(prod, Max(start, 0), stop)

\* apply_lanczos_filter
apply_lanczos_filter(samples, sz, x, kernel) ==
    [i \in 1 .. Len(x) |->
        lanczos_convolve(samples, sz, kernel, x[i] \div 2,
                         (i - 1) * kernel.radius * 2)]

Radii == {3, 4}

\* init_interp: positions between bin 1 and the last bin
Positions(sz) == 2 .. (2 * (sz - 1))

\* the frames interpolated: flat ones and a ramp
Spectrums(sz) ==
    { [i \in 0 .. sz - 1 |-> v] : v \in {1, 2} } \cup { [i \in 0 .. sz - 1 |-> i] }

LanczosInit ==
    /\ clock = StartClock
    /\ src_alive = TRUE
    /\ showing = TRUE
    /\ lock = Free
    /\ pc = Idle
    /\ ev = NoEv
    /\ hist = NoHist
    /\ \E sz \in {3, MaxBins}, radius \in Radii :
         \E samples \in Spectrums(sz), x \in Positions(sz) :
            w = [m_decibels |-> samples, size |-> sz,
                 m_interp_indices |-> <<x>>,
                 m_lanczos_kernel |-> make_lanczos_kernel(<<x>>, radius),
                 m_interp_buf |-> << >>]

\* update(): init_interp lays out new positions and builds their kernel
NewPositions ==
    /\ \E radius \in Radii, x \in Positions(w.size) :
         \E y \in Positions(w.size) \cap {x, x + 1} :
            /\ w' = [w EXCEPT
                       !.m_interp_indices = <<x, y>>,
                       !.m_lanczos_kernel = make_lanczos_kernel(<<x, y>>, radius)]
            /\ ev' = [op |-> "kernel", path |-> "", pre |-> << >>]
    /\ UNCHANGED <<clock, src_alive, showing, lock, pc, hist>>

\* render(): the spectrum is interpolated at the positions
ApplyLanczos ==
    /\ w' = [w EXCEPT !.m_interp_buf =
                apply_lanczos_filter(w.m_decibels, w.size,
                                     w.m_interp_indices, w.m_lanczos_kernel)]
    /\ ev' = [op |-> "lanczos", path |-> "", pre |-> << >>]
    /\ UNCHANGED <<clock, src_alive, showing, lock, pc, hist>>

LanczosNext == NewPositions \/ ApplyLanczos

LanczosSpec == LanczosInit /\ [][LanczosNext]_vars

\* the kernel of output k reaches past an end of the array
AtEdge(s, k) ==
    LET index == s.m_interp_indices[k] \div 2
    IN \/ (index - s.m_lanczos_kernel.radius) + 1 < 0
       \/ index + s.m_lanczos_kernel.radius > s.size - 1

\* C23: for an output whose kernel support reaches past an end of the
\* array, lanczos_convolve sums the in-range taps only and divides by the
\* sum of their weights, so a constant array yields the same constant at
\* edge positions.
C23_LanczosEdgeNormalized ==
    ev.op = "lanczos" =>
        \A k \in 1 .. Len(w.m_interp_indices) :
            (AtEdge(w, k) /\ Flat(w.m_decibels, w.size)) =>
                w.m_interp_buf[k] = w.m_decibels[0] * LanczosOne

\* an edge output on a constant array between two bins
C23_Witness ==
    /\ ev.op = "lanczos"
    /\ Flat(w.m_decibels, w.size)
    /\ \E k \in 1 .. Len(w.m_interp_indices) :
          /\ AtEdge(w, k)
          /\ w.m_interp_indices[k] % 2 = 1
          /\ LanczosTaps(w.size, w.m_lanczos_kernel,
                         w.m_interp_indices[k] \div 2) \subseteq 0 .. w.size - 1
          /\ w.m_interp_buf[k] # w.m_decibels[0] * LanczosOne

---------------------------------------------------------------------------
(* Hidden or stalled source *)

StallConfigs == { cfg \in Configs : cfg.tsmoothing # "NONE" }

StallInit == InitWith(StallConfigs, {1}, {TRUE}, {TRUE})

StallNext ==
    \/ UpdateT(StallConfigs, {1}, {TRUE})
    \/ TickT({1}, Mags)
    \/ CaptureT({FftLen}, {"punctual"}, SameData({"zero", "nz"}), {FALSE})
    \/ Show
    \/ Hide
    \/ Advance

StallSpec == StallInit /\ [][StallNext]_vars

\* the last step was a tick that found the source hidden or stalled
QuietTick == ev.op = "tick" /\ ev.path = "quiet"

AllDbMin(s) ==
    \A c \in Displayed(s) : \A i \in Bins(s) : s.m_decibels[c][i] = DB_MIN

\* the same tick once more
TickAgain == tick(w, ev.pre.seconds, ev.pre.fft, src_alive, ev.pre.now)

---------------------------------------------------------------------------
(* init_interp and the bar renderer.  Bin positions are exact fractions
   num / den with one denominator per layout (den = IX * (sz - 1)); the
   cutoffs reach the bins through cutoff * m_fft_size / sr with the scaled
   rate InterpRate.  A logarithmic position is rounded down to a quarter
   bin. *)

IX == 4
InterpRate == 16
MaxWidth == 6

\* std::clamp
Clamp(v, lo, hi) == IF v < lo THEN lo ELSE IF hi < v THEN hi ELSE v

\* init_interp: the cutoff bins, in quarter bins, kept inside 1 .. maxbin
CutoffBin(s, cutoff) ==
    LET maxbin == (s.m_fft_size \div 2) - 1
    IN Clamp((cutoff * s.m_fft_size * IX) \div InterpRate, IX, maxbin * IX)

\* math_funcs.hpp log_interp(a, b, t) for t = tnum / n in 0 .. 1, in
\* quarter bins rounded down
log_interp(a, b, tnum, n) ==
    CHOOSE k \in a .. b :
        /\ k ^ n <= (a ^ (n - tnum)) * (b ^ tnum)
        /\ (k = b \/ (k + 1) ^ n > (a ^ (n - tnum)) * (b ^ tnum))

\* init_interp without the clamp to lowbin .. highbin
InterpIndex_unclamped(s, i, sz) ==
    LET lowbin == CutoffBin(s, s.m_cutoff_low)
        highbin == CutoffBin(s, s.m_cutoff_high)
        n == sz - 1
        tnum == IF s.m_mirror_freq_axis THEN i * 2 ELSE i
    IN IF n = 0 THEN lowbin
       ELSE (lowbin * n) + (tnum * (highbin - lowbin))

\* init_interp: position i of sz, as a numerator over IX * (sz - 1)
InterpIndex(s, i, sz) ==
    LET lowbin == CutoffBin(s, s.m_cutoff_low)
        highbin == CutoffBin(s, s.m_cutoff_high)
        n == sz - 1
        tnum == IF s.m_mirror_freq_axis THEN i * 2 ELSE i
    IN IF n = 0 THEN lowbin
       ELSE IF s.m_log_scale
       THEN (IF tnum >= n THEN highbin
             ELSE log_interp(lowbin, highbin, tnum, n)) * n
       ELSE Clamp((lowbin * n) + (tnum * (highbin - lowbin)),
                  lowbin * n, highbin * n)

\* the run length without the lower limit
band_width_raw(this, next, den) == (next - this) \div den

\* init_interp: the run length of a band, (int)(next - this), at least 1
band_width(this, next, den) == Max((next - this) \div den, 1)

\* init_interp(sz) in bar mode
init_interp(s, sz) ==
    LET den == IF sz > 1 THEN IX * (sz - 1) ELSE IX
        idx == [i \in 0 .. sz - 1 |-> InterpIndex(s, i, sz)]
    IN [s EXCEPT
          !.m_interp_indices = idx,
          !.interp_den = den,
          !.m_band_widths = [i \in 0 .. s.m_num_bars - 1 |->
                               band_width(idx[i], idx[i + 1], den)]]

\* update(): the bar count, then init_interp with one extra position
init_bars(s) ==
    LET bar_stride == s.m_bar_width + s.m_bar_gap
        fit == s.m_width \div bar_stride
        num_bars == IF (s.m_width - (fit * bar_stride)) >= s.m_bar_width
                    THEN fit + 1 ELSE fit
        s1 == [s EXCEPT !.m_num_bars = num_bars]
    IN init_interp(s1, num_bars + 1)

\* render_bars, point mode: the bins bar i reads
BarReads(s, i) ==
    { (s.m_interp_indices[i] \div s.interp_den) + j :
        j \in 0 .. s.m_band_widths[i] - 1 }

\* render_bars, point mode: the mean of the bins of each bar; a read
\* outside the frame yields whatever lies there
render_bars(s, stray) ==
    [s EXCEPT !.m_interp_buf =
        [i \in 0 .. s.m_num_bars - 1 |->
            LET vals == [b \in BarReads(s, i) |->
                           IF b \in DOMAIN s.m_decibels
                           THEN s.m_decibels[b] ELSE stray]
            IN SumAll(vals) \div s.m_band_widths[i]]]

BarFftSizes == {8, 12}
BarCutoffs == {0, 3, 8}
BarWidths == {1, 3, MaxWidth}

\* the part of the settings that lays out the bars
BarSettings ==
    [ fft_size : BarFftSizes, cutoff_low : BarCutoffs, cutoff_high : BarCutoffs,
      log_scale : BOOLEAN, mirror_freq_axis : BOOLEAN,
      width : BarWidths, bar_width : {1, 2}, bar_gap : {0, 1} ]

\* update() in bar mode, as far as the bar layout goes
update_bars(cfg) ==
    LET cut == cutoff_range(cfg.cutoff_low, cfg.cutoff_high)
    IN init_bars(
         [ m_fft_size |-> cfg.fft_size,
           m_cutoff_low |-> cut.low, m_cutoff_high |-> cut.high,
           m_log_scale |-> cfg.log_scale,
           m_mirror_freq_axis |-> cfg.mirror_freq_axis,
           m_width |-> cfg.width, m_bar_width |-> cfg.bar_width,
           m_bar_gap |-> cfg.bar_gap, m_num_bars |-> 0,
           m_interp_indices |-> << >>, interp_den |-> IX,
           m_band_widths |-> << >>,
           m_decibels |-> [b \in 0 .. (cfg.fft_size \div 2) - 1 |-> b * FX],
           m_interp_buf |-> << >> ])

BarInit ==
    /\ clock = StartClock
    /\ src_alive = TRUE
    /\ showing = TRUE
    /\ lock = Free
    /\ pc = Idle
    /\ ev = NoEv
    /\ hist = NoHist
    /\ \E cfg \in BarSettings : w = update_bars(cfg)

UpdateBars ==
    /\ \E cfg \in BarSettings :
         /\ w' = update_bars(cfg)
         /\ ev' = [op |-> "update", path |-> "bars", pre |-> cfg]
    /\ UNCHANGED <<clock, src_alive, showing, lock, pc, hist>>

RenderBars ==
    /\ \E stray \in {DB_MIN} :
         /\ w' = render_bars(w, stray)
         /\ ev' = [op |-> "render", path |-> "bars", pre |-> << >>]
    /\ UNCHANGED <<clock, src_alive, showing, lock, pc, hist>>

BarNext == UpdateBars \/ RenderBars

BarSpec == BarInit /\ [][BarNext]_vars

\* the bins between the cutoffs
BinsBetween(s) ==
    (CutoffBin(s, s.m_cutoff_high) - CutoffBin(s, s.m_cutoff_low)) \div IX

\* C25: after init_interp in bar mode every entry of m_band_widths is at
\* least 1 and there is one band per bar (m_num_bars entries), also when
\* there are more bars than bins between the cutoffs.
C25_BandsHaveContributor ==
    ev.op = "update" =>
        /\ DOMAIN w.m_band_widths = 0 .. w.m_num_bars - 1
        /\ DOMAIN w.m_interp_indices = 0 .. w.m_num_bars
        /\ \A i \in DOMAIN w.m_band_widths : w.m_band_widths[i] >= 1

\* more bars than bins between the cutoffs
C25_Witness ==
    /\ ev.op = "update"
    /\ w.m_num_bars > BinsBetween(w) + 1
    /\ w.m_num_bars >= 3
    /\ \E i \in DOMAIN w.m_band_widths :
          (w.m_interp_indices[i + 1] - w.m_interp_indices[i]) < w.interp_den

\* C30: in point-mode bar rendering every bin index
\* floor(m_interp_indices[i]) + j, j < m_band_widths[i], read from the
\* frame lies in 0 .. m_fft_size / 2 - 1, for every width, bar width and
\* gap, cutoffs, scale and axis mirroring.
C30_BarReadsInBounds ==
    ev.op = "render" =>
        \A i \in 0 .. w.m_num_bars - 1 :
            /\ BarReads(w, i) # {}
            /\ BarReads(w, i) \subseteq 0 .. (w.m_fft_size \div 2) - 1
            /\ w.m_interp_buf[i] \in 0 .. ((w.m_fft_size \div 2) - 1) * FX

\* a mirrored layout was rendered whose last bar reads the last bin and
\* one of whose bars averages several bins
C30_Witness ==
    /\ ev.op = "render"
    /\ w.m_mirror_freq_axis
    /\ w.m_num_bars >= 3
    /\ (w.m_fft_size \div 2) - 1 \in BarReads(w, w.m_num_bars - 1)
    /\ \E i \in 0 .. w.m_num_bars - 1 : w.m_band_widths[i] > 1

---------------------------------------------------------------------------
(* The RMS window: deliveries longer than one chunk, drift, the ring *)

RmsConfigs ==
    { [cfg EXCEPT !.normalize_volume = TRUE] :
        cfg \in { c \in MonoConfigs : c.fast_peaks = FALSE } }

RmsInit == InitWith(RmsConfigs, {1}, {TRUE}, {TRUE})

RmsNext ==
    \/ UpdateT(RmsConfigs, {1}, {TRUE})
    \/ TickT({1}, {MaxMag})
    \/ CaptureT({1, AUDIO_OUTPUT_FRAMES + 1}, {"punctual", "now"},
                SameData({"nz", "step"}), {FALSE})

RmsSpec == RmsInit /\ [][RmsNext]_vars

\* the values the delivery holds: per frame the square of the largest
\* sample over the captured channels, in delivery order
RmsOfDelivery(s, audio) ==
    [k \in 1 .. audio.frames |->
        LargestAt(s, audio, k - 1) * LargestAt(s, audio, k - 1)]

\* the RMS sync buffer may hold this much after the delivery
RmsRoom(s) ==
    (DtSamples(s, s.m_capture_ts) + s.m_input_rms_size) * sizeof_float

\* C26: a delivery of F frames, F larger than AUDIO_OUTPUT_FRAMES
\* included, appends F values to the RMS sync buffer, the k-th being the
\* square of the largest sample over the captured channels at frame k of
\* the delivery (the buffer is then trimmed from the front).
C26_RmsSyncContent ==
    (AcceptedCapture /\ ev.pre.w.m_normalize_volume) =>
        w.m_rms_sync_buf =
            push_and_trim(ev.pre.w.m_rms_sync_buf,
                          RmsOfDelivery(ev.pre.w, ev.pre.audio), RmsRoom(w))

\* a delivery longer than one chunk whose frames differ was accepted
C26_Witness ==
    /\ AcceptedCapture
    /\ ev.pre.w.m_normalize_volume
    /\ ev.pre.audio.frames > AUDIO_OUTPUT_FRAMES
    /\ ev.pre.audio.data[0] = "step"
    /\ Len(w.m_rms_sync_buf) >= AUDIO_OUTPUT_FRAMES

---------------------------------------------------------------------------
(* The two timestamps a tick compares *)

StampInit == InitWith(PlainConfigs, {1}, {TRUE}, {TRUE})

StampNext ==
    \/ UpdateT(PlainConfigs, {1}, {TRUE})
    \/ TickT({1}, {MaxMag})
    \/ CaptureT({FftLen}, {"punctual"}, SameData({"nz"}), {FALSE})
    \/ SrcDestroy
    \/ SrcCreate
    \/ Show
    \/ Hide
    \/ Advance

StampSpec == StampInit /\ [][StampNext]_vars

\* the last step was a tick that went on to compare the two timestamps
ComparingTick == ev.op = "tick" /\ ev.path \in {"quiet", "run"}

\* C27: whenever a tick evaluates dtcapture = m_tick_ts - m_capture_ts,
\* m_capture_ts <= m_tick_ts, so the unsigned subtraction does not wrap,
\* and a shown source whose last delivery is no older than
\* CAPTURE_TIMEOUT is not treated as timed out.
C27_CaptureNotAfterTick ==
    ComparingTick =>
        /\ w.m_capture_ts <= w.m_tick_ts
        /\ U64Sub(w.m_tick_ts, w.m_capture_ts) = w.m_tick_ts - w.m_capture_ts
        /\ (w.m_show /\ ev.pre.now - w.m_capture_ts <= CAPTURE_TIMEOUT)
              => ~TickQuiet(w)

\* a tick compared its timestamp with that of a delivery made after the
\* tick before it, and let the frame run
C27_Witness ==
    /\ ev.op = "tick"
    /\ ev.path = "run"
    /\ ev.pre.w.m_tick_ts < w.m_capture_ts
    /\ ev.pre.w.m_tick_ts > 0
    /\ w.m_capture_ts < w.m_tick_ts

---------------------------------------------------------------------------
(* Channel selection: mode, channel number and speaker layout *)

ChannelModes == {"MONO", "STEREO", "SINGLE"}

\* channel numbers a settings object may hold: below, inside and above
\* the range of the property, and one that only the cast brings back
ChannelNumbers ==
    {-1, 0, 1, 2, MAX_AUDIO_CHANNELS - 1, MAX_AUDIO_CHANNELS, 2^INT_BITS + 1}

\* channel counts of the speaker layouts (0 for SPEAKERS_UNKNOWN)
ChannelCounts == {0, 1, 2, 6, MAX_AUDIO_CHANNELS}

ChannelConfigs ==
    { [cfg EXCEPT !.channel_mode = m, !.channel = n] :
        cfg \in MonoConfigs, m \in ChannelModes, n \in ChannelNumbers }

\* every data pointer of the delivery carries the same kind of data
WideData(kinds) == { [c \in 0 .. MAX_AUDIO_CHANNELS - 1 |-> k] : k \in kinds }

ChannelInit == InitWith(ChannelConfigs, ChannelCounts, {TRUE}, {TRUE})

ChannelNext ==
    \/ UpdateT(ChannelConfigs, ChannelCounts, {TRUE})
    \/ CaptureT({1}, {"punctual"}, WideData({"nz"}), {FALSE})

ChannelSpec == ChannelInit /\ [][ChannelNext]_vars

\* the capture-buffer indices of the push loop
PushIndices(s) ==
    { i - s.m_channel_base :
        i \in s.m_channel_base .. (s.m_channel_base + s.m_capture_channels - 1) }

\* the assertions of capture_audio
CaptureAsserts(s) ==
    /\ s.m_channel_base >= 0
    /\ s.m_channel_base < s.speakers
    /\ s.m_channel_base = 0 \/ s.m_capture_channels = 1
    /\ PushIndices(s) \subseteq {0, 1}

\* C28: in every reachable state in which a delivery passes the guards of
\* capture_audio, 0 <= m_channel_base < number of audio channels,
\* m_channel_base # 0 implies m_capture_channels = 1, and every
\* capture-buffer index of the push loop is 0 or 1, whatever channel
\* mode, channel number and speaker layout update() was given.
C28_CaptureAssertsHold ==
    /\ capture_guard(w) => CaptureAsserts(w)
    /\ AcceptedCapture => CaptureAsserts(ev.pre.w)

\* a delivery was accepted on the last channel of the widest layout after
\* an update that asked for single-channel mode
C28_Witness ==
    /\ AcceptedCapture
    /\ ev.pre.w.m_channel_mode = "SINGLE"
    /\ ev.pre.w.m_channel_base = MAX_AUDIO_CHANNELS - 1
    /\ w.m_capturebufs[0] # << >>

\* the tick's call of sync_rms_buffer, from the state the tick started in
TickDrain ==
    LET s0 == [ev.pre.w EXCEPT !.m_tick_ts = ev.pre.now]
    IN [from |-> s0,
        ok |-> sync_rms_buffer(s0).ok,
        loop |-> rms_drain(s0, RmsDtSize(s0), 0, DrainFuel(s0))]

SyncingTick == ev.op = "tick" /\ ev.pre.w.m_normalize_volume /\ TickDrain.ok

\* the values the drain takes, written round the ring from where it stood
DrainedRing ==
    LET s0 == TickDrain.from
        n == (BufSize(s0.m_rms_sync_buf) - RmsDtSize(s0)) \div sizeof_float
    IN RingWrite(s0.m_input_rms_buf, s0.m_input_rms_pos, s0.m_input_rms_size,
                 SubSeq(s0.m_rms_sync_buf, 1, n))

\* C29: with normalization enabled m_input_rms_pos stays in
\* [0, m_input_rms_size) and every write of sync_rms_buffer lies inside
\* the RMS ring; the drain loop terminates and, when sync_rms_buffer
\* returns true, leaves exactly the drift amount dtsize in the RMS sync
\* buffer; after a delivery the RMS sync buffer holds no more than
\* (dtsamples + m_input_rms_size) * sizeof(float).
C29_RmsRingIndexing ==
    /\ w.m_normalize_volume =>
          /\ w.m_input_rms_pos \in 0 .. (w.m_input_rms_size - 1)
          /\ DOMAIN w.m_input_rms_buf = 0 .. (w.m_input_rms_size - 1)
    /\ (ev.op = "tick" /\ ev.pre.w.m_normalize_volume) => TickDrain.loop.done
    /\ SyncingTick =>
          /\ BufSize(TickDrain.loop.s.m_rms_sync_buf) = RmsDtSize(TickDrain.from)
          /\ w.m_rms_sync_buf = TickDrain.loop.s.m_rms_sync_buf
          /\ w.m_input_rms_buf = DrainedRing.buf
          /\ w.m_input_rms_pos = DrainedRing.pos
    /\ (AcceptedCapture /\ ev.pre.w.m_normalize_volume) =>
          BufSize(w.m_rms_sync_buf) <= RmsRoom(w)

\* a tick drained more than the ring holds from a write position inside
\* the ring, in several iterations, and kept a positive drift queued
C29_Witness ==
    /\ SyncingTick
    /\ TickDrain.from.m_input_rms_pos > 0
    /\ TickDrain.loop.steps > 1
    /\ RmsDtSize(TickDrain.from) > 0
    /\ w.m_rms_sync_buf # << >>

=============================================================================
